---- MODULE Spec2Model ----
(***************************************************************************)
(* Style-fingerprinting pipeline of the CodeMind backend:                  *)
(*   language_detector.py, code_analyzer.py, multi_language_analyzer.py,   *)
(*   style_dna.py.                                                         *)
(*                                                                         *)
(* Text is modelled at the level the code inspects it.  Identifiers and    *)
(* file names are sequences of one-character strings, so that str.lower,   *)
(* str.islower, str.isupper, "'_' in name" and filename.split('.') are     *)
(* computed.  What the Python parser (ast.parse / ast.walk) and the        *)
(* regular expressions return for a file content is carried by the file    *)
(* record (the AST nodes, the regex matches, the signature tokens in the   *)
(* first 500 characters): these are library results, not repository code.  *)
(* Percentages are integers in tenths of a percent (round(x, 1) * 10).     *)
(***************************************************************************)
EXTENDS Integers, Sequences, FiniteSets, TLC

VARIABLES files, orig, perm, pc, report, first, permReport, codeReport,
          codeTotals, dnaReport,
          objects, profiles_db, response,
          call, returned,
          sessions_db, now, issued,
          github_progress, file_upload_progress, progress_lock, requests

vars == <<files, orig, perm, pc, report, first, permReport, codeReport,
          codeTotals, dnaReport, objects, profiles_db, response, call, returned,
          sessions_db, now, issued,
          github_progress, file_upload_progress, progress_lock, requests>>

\* the state of models.py and of the request handlers of app.py
storeVars == <<objects, profiles_db, response>>

\* a single call of one function: its name and argument, and what it returned
unitVars == <<call, returned>>

\* the sessions of models.py, the clock (utcnow, in days) and the number of
\* tokens handed out
sessionVars == <<sessions_db, now, issued>>

\* the progress dictionaries of app.py, their lock, and the analysis
\* requests in flight
progressVars == <<github_progress, file_upload_progress, progress_lock, requests>>

\* the state of the analyzer calls
analysisVars == <<files, orig, perm, pc, report, first, permReport, codeReport,
                  codeTotals, dnaReport>>

(***************************************************************************)
(* Bounds of the model.                                                    *)
(***************************************************************************)
MaxFiles == 3

\* the length of the batches longer than the sample of a language
MaxBatch == 12

\* the functions of the files whose totals a single call is given
MaxFunctions == 2

\* the length of the identifiers a single call is given
MaxNameLen == 3

\* the sessions created
MaxSessions == 2

\* the days the clock runs
MaxTime == 62

(***************************************************************************)
(* Characters and the str methods the analyzers use.                       *)
(***************************************************************************)
UpperCh == {"A", "B", "D", "F", "G", "J", "M", "P", "S", "X", "Y"}

LowerOf == [c \in UpperCh |->
              CASE c = "A" -> "a" [] c = "B" -> "b" [] c = "D" -> "d"
                [] c = "F" -> "f" [] c = "G" -> "g" [] c = "J" -> "j"
                [] c = "M" -> "m" [] c = "P" -> "p" [] c = "S" -> "s"
                [] c = "X" -> "x" [] c = "Y" -> "y"]

LowerCh == {"a", "b", "c", "d", "e", "f", "g", "h", "i", "j", "k", "l", "m",
            "n", "o", "p", "q", "r", "s", "t", "u", "v", "w", "x", "y", "z"}

\* str.lower() on a sequence of characters
Lower(s) == [i \in 1..Len(s) |-> IF s[i] \in UpperCh THEN LowerOf[s[i]] ELSE s[i]]

\* str.islower(): no upper-case character and at least one cased character
IsLower(s) == /\ \A i \in 1..Len(s) : s[i] \notin UpperCh
              /\ \E i \in 1..Len(s) : s[i] \in LowerCh

\* str.isupper(): no lower-case character and at least one cased character
IsUpper(s) == /\ \A i \in 1..Len(s) : s[i] \notin LowerCh
              /\ \E i \in 1..Len(s) : s[i] \in UpperCh

\* "c in s"
Contains(s, c) == \E i \in 1..Len(s) : s[i] = c

\* ''.join(s): the text of a sequence of characters
RECURSIVE Join(_)
Join(s) == IF s = <<>> THEN "" ELSE Head(s) \o Join(Tail(s))

\* s.split('.')[-1]: the characters after the last dot (all of s without one)
RECURSIVE LastSegment(_)
LastSegment(s) ==
    IF s = <<>> THEN <<>>
    ELSE IF Contains(Tail(s), ".") THEN LastSegment(Tail(s))
    ELSE IF Head(s) = "." THEN Tail(s)
    ELSE s

(***************************************************************************)
(* language_detector.py                                                    *)
(***************************************************************************)
LANGUAGE_EXTENSIONS == <<
    [language |-> "Python",     extensions |-> {".py", ".pyw", ".pyx"}],
    [language |-> "JavaScript", extensions |-> {".js", ".jsx", ".mjs"}],
    [language |-> "TypeScript", extensions |-> {".ts", ".tsx"}],
    [language |-> "Java",       extensions |-> {".java"}],
    [language |-> "C",          extensions |-> {".c", ".h"}],
    [language |-> "C++",        extensions |-> {".cpp", ".cc", ".cxx", ".hpp", ".hxx"}],
    [language |-> "C#",         extensions |-> {".cs"}],
    [language |-> "Go",         extensions |-> {".go"}],
    [language |-> "Rust",       extensions |-> {".rs"}],
    [language |-> "Ruby",       extensions |-> {".rb"}],
    [language |-> "PHP",        extensions |-> {".php"}],
    [language |-> "Swift",      extensions |-> {".swift"}],
    [language |-> "Kotlin",     extensions |-> {".kt", ".kts"}],
    [language |-> "Scala",      extensions |-> {".scala"}],
    [language |-> "R",          extensions |-> {".r"}],
    [language |-> "MATLAB",     extensions |-> {".m"}],
    [language |-> "Shell",      extensions |-> {".sh", ".bash", ".zsh"}],
    [language |-> "HTML",       extensions |-> {".html", ".htm"}],
    [language |-> "CSS",        extensions |-> {".css", ".scss", ".sass", ".less"}],
    [language |-> "Vue",        extensions |-> {".vue"}],
    [language |-> "Svelte",     extensions |-> {".svelte"}],
    [language |-> "Dart",       extensions |-> {".dart"}],
    [language |-> "Lua",        extensions |-> {".lua"}],
    [language |-> "Perl",       extensions |-> {".pl", ".pm"}],
    [language |-> "SQL",        extensions |-> {".sql"}] >>

\* position of a language in the extension table (0 when it is not there)
TableIndex(language) ==
    IF \E i \in 1..Len(LANGUAGE_EXTENSIONS) : LANGUAGE_EXTENSIONS[i].language = language
    THEN CHOOSE i \in 1..Len(LANGUAGE_EXTENSIONS) : LANGUAGE_EXTENSIONS[i].language = language
    ELSE 0

\* get_language_from_extension: extension is a sequence of characters
get_language_from_extension(extension) ==
    LET ext  == Join(Lower(extension))
        hits == {i \in 1..Len(LANGUAGE_EXTENSIONS) : ext \in LANGUAGE_EXTENSIONS[i].extensions}
    IN IF hits = {} THEN "Unknown"
       ELSE LANGUAGE_EXTENSIONS[CHOOSE i \in hits : \A j \in hits : i <= j].language

(***************************************************************************)
(* The regular expressions of detect_language_from_content, over the set   *)
(* of signature tokens that occur in content[:500].lower() (head) and in   *)
(* the whole content (css).  A token that contains another one as text     *)
(* makes the other's pattern match as well: "import java." holds           *)
(* "import" followed by a blank.                                           *)
(***************************************************************************)
PythonIndicator(head) ==
    head \cap {"import ", "from ", "def ", "class ", "if __name__", "import java."} # {}

PythonShebang(head) == head \cap {"#!/usr/bin/env python", "#!/usr/bin/python"} # {}

JavaScriptIndicator(head) ==
    head \cap {"function", "const", "let", "var", "=>", "require(", "import ",
               "import java."} # {}

JavaIndicator(head) == head \cap {"public class", "import java.", "package "} # {}

IncludeIndicator(head) == "#include <" \in head

CppIndicator(head) == head \cap {"namespace", "std::"} # {}

\* the pattern is written with upper-case DOCTYPE but is applied to the
\* lower-cased text, so only its "<html" and "<head>" branches can match
HtmlIndicator(head) == head \cap {"<html", "<head>"} # {}

CssIndicator(css) == css

\* detect_language_from_content trying the content before the extension
detect_language_from_content_content_first(filename, content) ==
    IF PythonIndicator(content.head) /\ PythonShebang(content.head) THEN "Python"
    ELSE IF JavaScriptIndicator(content.head) THEN "JavaScript"
    ELSE IF JavaIndicator(content.head) THEN "Java"
    ELSE IF IncludeIndicator(content.head)
         THEN (IF CppIndicator(content.head) THEN "C++" ELSE "C")
    ELSE IF HtmlIndicator(content.head) THEN "HTML"
    ELSE IF CssIndicator(content.css) THEN "CSS"
    ELSE IF Contains(filename, ".")
    THEN get_language_from_extension(<<".">> \o Lower(LastSegment(filename)))
    ELSE "Unknown"

\* detect_language_from_content
detect_language_from_content(filename, content) ==
    LET lang == IF Contains(filename, ".")
                THEN get_language_from_extension(<<".">> \o Lower(LastSegment(filename)))
                ELSE "Unknown"
    IN IF lang # "Unknown" THEN lang
       ELSE IF PythonIndicator(content.head) /\ PythonShebang(content.head) THEN "Python"
       ELSE IF JavaScriptIndicator(content.head) THEN "JavaScript"
       ELSE IF JavaIndicator(content.head) THEN "Java"
       ELSE IF IncludeIndicator(content.head)
            THEN (IF CppIndicator(content.head) THEN "C++" ELSE "C")
       ELSE IF HtmlIndicator(content.head) THEN "HTML"
       ELSE IF CssIndicator(content.css) THEN "CSS"
       ELSE "Unknown"

(***************************************************************************)
(* Helpers                                                                 *)
(***************************************************************************)
RECURSIVE SumSeq(_)
SumSeq(s) == IF s = <<>> THEN 0 ELSE Head(s) + SumSeq(Tail(s))

Min(a, b) == IF a <= b THEN a ELSE b

Max(a, b) == IF a >= b THEN a ELSE b

\* len([x for x in s if P(x)]) for the sequences of AST nodes
Count(s, P(_)) == Cardinality({i \in 1..Len(s) : P(s[i])})

\* [g(x) for x in s]
Map(s, g(_)) == [i \in 1..Len(s) |-> g(s[i])]

\* s[:n]
Take(s, n) == SubSeq(s, 1, Min(n, Len(s)))

\* round(num / den, 1), in tenths (round-half-even on the exact quotient)
RoundTenths(num, den) ==
    LET q == (10 * num) \div den
        r == (10 * num) % den
    IN IF 2 * r > den THEN q + 1
       ELSE IF 2 * r < den THEN q
       ELSE IF q % 2 = 0 THEN q ELSE q + 1

\* round(a / b * 100, 1), in tenths
Round1(a, b) == RoundTenths(100 * a, b)

(***************************************************************************)
(* code_analyzer.py                                                        *)
(***************************************************************************)
\* the accumulator analyze_code_files starts from
EmptyPatterns ==
    [function_names |-> <<>>, variable_names |-> <<>>, has_docstrings |-> 0,
     total_functions |-> 0, has_type_hints |-> 0, functions_with_type_hints |-> 0,
     try_except |-> 0, if_else |-> 0, function_lengths |-> <<>>, total_lines |-> 0,
     class_names |-> <<>>, total_classes |-> 0, has_module_docstring |-> 0,
     comment_lines |-> 0, files_analyzed |-> 0]

\* "if ast.get_docstring(node)": a docstring that is not empty
HasDoc(node) == node.doc.length > 0

IsTyped(node) == node.typed

NodeName(node) == node.name

NodeLength(node) == node.length

\* analyze_ast: one walk over the nodes of a parsed file
analyze_ast(content) ==
    [function_names |-> Map(content.functions, NodeName),
     variable_names |-> content.assigns,
     has_docstrings |-> Count(content.functions, HasDoc) + Count(content.classes, HasDoc),
     total_functions |-> Len(content.functions),
     has_type_hints |-> Count(content.functions, IsTyped),
     functions_with_type_hints |-> Count(content.functions, IsTyped),
     try_except |-> content.try_nodes,
     if_else |-> content.if_nodes,
     function_lengths |-> Map(content.functions, NodeLength),
     total_lines |-> content.lines,
     class_names |-> Map(content.classes, NodeName),
     total_classes |-> Len(content.classes),
     has_module_docstring |-> IF content.module_doc THEN 1 ELSE 0,
     comment_lines |-> content.comment_lines]

\* lines 50-65: add the patterns of a parsed file to the accumulator
Aggregate(all, p) ==
    [function_names |-> all.function_names \o p.function_names,
     variable_names |-> all.variable_names \o p.variable_names,
     has_docstrings |-> all.has_docstrings + p.has_docstrings,
     total_functions |-> all.total_functions + p.total_functions,
     has_type_hints |-> all.has_type_hints + p.has_type_hints,
     functions_with_type_hints |-> all.functions_with_type_hints + p.functions_with_type_hints,
     try_except |-> all.try_except + p.try_except,
     if_else |-> all.if_else + p.if_else,
     function_lengths |-> all.function_lengths \o p.function_lengths,
     total_lines |-> all.total_lines + p.total_lines,
     class_names |-> all.class_names \o p.class_names,
     total_classes |-> all.total_classes + p.total_classes,
     has_module_docstring |-> all.has_module_docstring + p.has_module_docstring,
     comment_lines |-> all.comment_lines + p.comment_lines,
     files_analyzed |-> all.files_analyzed + 1]

\* a SyntaxError handler that drops the file
DegradeSyntaxError_drop(all, content) == all

\* lines 67-78: the SyntaxError handler (content is non-blank when it runs)
DegradeSyntaxError(all, content) ==
    [all EXCEPT !.variable_names = @ \o content.regex_vars,
                !.total_lines = @ + content.lines,
                !.files_analyzed = @ + 1]

\* lines 79-86: the handler of any other exception of the parser
DegradeOtherError(all, content) ==
    [all EXCEPT !.total_lines = @ + content.lines,
                !.files_analyzed = @ + 1]

\* one iteration of the loop of analyze_code_files
AnalyzeOneFile(all, file_data) ==
    LET content == file_data.content
    IN IF content.text # "code" THEN all
       ELSE IF content.parse = "ok" THEN Aggregate(all, analyze_ast(content))
       ELSE IF content.parse = "SyntaxError" THEN DegradeSyntaxError(all, content)
       ELSE DegradeOtherError(all, content)

\* the loop of analyze_code_files, from the accumulator all
RECURSIVE FoldFiles(_, _)
FoldFiles(all, fs) ==
    IF fs = <<>> THEN all ELSE FoldFiles(AnalyzeOneFile(all, Head(fs)), Tail(fs))

TrivialNames == {<<"i">>, <<"j">>, <<"k">>, <<"x">>, <<"y">>, <<"z">>, <<"i", "d">>, <<"o", "k">>}

IsTallied(n) == Len(n) > 1 /\ n \notin TrivialNames

\* the names detect_naming_style tallies
FilteredNames(names) ==
    IF SelectSeq(names, IsTallied) = <<>> THEN names ELSE SelectSeq(names, IsTallied)

\* the bucket detect_naming_style puts a name in ("none" when no branch applies)
NameBucket(n) ==
    IF Contains(n, "_") /\ IsLower(n) THEN "snake_case"
    ELSE IF n[1] \in UpperCh /\ ~Contains(n, "_") THEN "PascalCase"
    ELSE IF n[1] \in LowerCh /\ ~Contains(n, "_") THEN "camelCase"
    ELSE "none"

InBucket(names, b) == Cardinality({i \in 1..Len(names) : NameBucket(names[i]) = b})

\* detect_naming_style dividing by the number of all names instead of the
\* number of tallied names
detect_naming_style_all_names(names) ==
    IF names = <<>> THEN [style |-> "snake_case", count |-> 0, total |-> 0]
    ELSE LET filtered == FilteredNames(names)
             snake    == InBucket(filtered, "snake_case")
             camel    == InBucket(filtered, "camelCase")
             pascal   == InBucket(filtered, "PascalCase")
             top      == Max(snake, Max(camel, pascal))
         IN [style |-> IF top = snake THEN "snake_case"
                       ELSE IF top = camel THEN "camelCase" ELSE "PascalCase",
             count |-> top, total |-> Len(names)]

\* detect_naming_style: the style and the counts the confidence is made of
\* (confidence = count / total * 100; 0.0 when total is 0)
detect_naming_style(names) ==
    IF names = <<>> THEN [style |-> "snake_case", count |-> 0, total |-> 0]
    ELSE LET filtered == FilteredNames(names)
             total    == Len(filtered)
             snake    == InBucket(filtered, "snake_case")
             camel    == InBucket(filtered, "camelCase")
             pascal   == InBucket(filtered, "PascalCase")
             top      == Max(snake, Max(camel, pascal))
         IN IF 2 * snake >= total THEN [style |-> "snake_case", count |-> snake, total |-> total]
            ELSE IF 2 * camel >= total THEN [style |-> "camelCase", count |-> camel, total |-> total]
            ELSE IF 2 * pascal >= total THEN [style |-> "PascalCase", count |-> pascal, total |-> total]
            ELSE IF top = snake THEN [style |-> "snake_case", count |-> snake, total |-> total]
            ELSE IF top = camel THEN [style |-> "camelCase", count |-> camel, total |-> total]
            ELSE [style |-> "PascalCase", count |-> pascal, total |-> total]

\* detect_error_handling_style with "at least twice" in the place of "more
\* than twice"
detect_error_handling_style_at_least(patterns) ==
    IF patterns.try_except + patterns.if_else = 0 THEN "basic"
    ELSE IF patterns.try_except >= patterns.if_else * 2 THEN "try_except"
    ELSE IF patterns.if_else >= patterns.try_except * 2 THEN "if_else"
    ELSE "mixed"

\* detect_error_handling_style
detect_error_handling_style(patterns) ==
    IF patterns.try_except + patterns.if_else = 0 THEN "basic"
    ELSE IF patterns.try_except > patterns.if_else * 2 THEN "try_except"
    ELSE IF patterns.if_else > patterns.try_except * 2 THEN "if_else"
    ELSE "mixed"

\* calculate_code_quality without the final clamp to [0, 100]
calculate_code_quality_unclamped(patterns) ==
    LET F   == patterns.total_functions
        L1  == Max(patterns.total_lines, 1)
        den == Max(F, 1) * L1
        doc == IF F > 0 THEN 20 * patterns.has_docstrings * L1
               ELSE IF patterns.has_module_docstring > 0 THEN 10 * den ELSE 0
        typ == IF F > 0 THEN 15 * patterns.functions_with_type_hints * L1 ELSE 0
        err == IF patterns.try_except + patterns.if_else > 0 THEN 10 * den ELSE 0
        stc == IF F > 0 \/ patterns.total_classes > 0 THEN 10 * den ELSE 0
    IN (40 * den + doc + typ + err + stc) \div den

\* calculate_code_quality.  The score is a rational number: it is kept as a
\* numerator over den = total_functions * total_lines (each replaced by 1
\* when it is 0).
calculate_code_quality(patterns) ==
    LET F   == patterns.total_functions
        L   == patterns.total_lines
        N   == Len(patterns.function_lengths)
        F1  == Max(F, 1)
        L1  == Max(L, 1)
        den == F1 * L1
        doc == IF F > 0 THEN 20 * patterns.has_docstrings * L1
               ELSE IF patterns.has_module_docstring > 0 THEN 10 * den ELSE 0
        typ == IF F > 0 THEN 15 * patterns.functions_with_type_hints * L1 ELSE 0
        \* comment_coverage = comment_lines / total_lines * 100, bonus when > 10
        com == IF L > 0 /\ 100 * patterns.comment_lines > 10 * L
               THEN Min(15 * den, 10 * patterns.comment_lines * F1) ELSE 0
        err == IF patterns.try_except + patterns.if_else > 0 THEN 10 * den ELSE 0
        stc == IF F > 0 \/ patterns.total_classes > 0 THEN 10 * den ELSE 0
        \* avg_length > 50 is tested first, so the "elif avg_length > 100"
        \* branch can never be taken
        pen == IF N > 0 /\ SumSeq(patterns.function_lengths) > 50 * N THEN 10 * den ELSE 0
        raw == 40 * den + doc + typ + com + err + stc - pen
        flo == IF L > 0 THEN Max(raw, 30 * den) ELSE raw
        \* int() truncates towards zero
        trc == IF flo >= 0 THEN flo \div den ELSE -((-flo) \div den)
    IN Min(100, Max(0, trc))

\* generate_report
generate_report(patterns) ==
    LET all_names == patterns.function_names \o patterns.variable_names \o patterns.class_names
        ns        == detect_naming_style(all_names)
        conf      == IF ns.total = 0 THEN 0 ELSE Round1(ns.count, ns.total)
        F         == patterns.total_functions
    IN [naming_style |-> ns.style,
        naming_confidence |->
            IF F = 0 /\ Len(all_names) > 0 THEN Max(conf, 300) ELSE conf,
        documentation_percentage |->
            IF F > 0 THEN Round1(patterns.has_docstrings, F)
            ELSE IF patterns.has_module_docstring > 0 THEN 200 ELSE 0,
        type_hints_percentage |->
            IF F > 0 THEN Round1(patterns.functions_with_type_hints, F) ELSE 0,
        error_handling_style |-> detect_error_handling_style(patterns),
        code_quality_score |-> calculate_code_quality(patterns),
        total_functions |-> patterns.total_functions,
        total_classes |-> patterns.total_classes,
        total_lines |-> patterns.total_lines,
        files_analyzed |-> patterns.files_analyzed]

\* analyze_code_files: the aggregated patterns and the report made of them
analyze_code_files(fs) ==
    LET all == FoldFiles(EmptyPatterns, fs)
    IN [patterns |-> all, report |-> generate_report(all)]

(***************************************************************************)
(* multi_language_analyzer.py                                              *)
(***************************************************************************)
NoTag == "<absent>"

SampleCap == 10

\* lines 61-65: the language tag analyze_all_languages leaves in a file record
EnsureLanguage(file_data) ==
    IF file_data.language = NoTag \/ file_data.language = "Unknown"
    THEN [file_data EXCEPT !.language = detect_language_from_content(file_data.filename, file_data.content)]
    ELSE file_data

\* language_detector.py, lines 123-126: the language a file is grouped under
GroupLanguage(file_data) ==
    IF file_data.language = NoTag \/ file_data.language = "Unknown"
    THEN detect_language_from_content(file_data.filename, file_data.content)
    ELSE file_data.language

\* the keys of files_by_language in insertion order
RECURSIVE LanguageOrder(_, _)
LanguageOrder(seen, fs) ==
    IF fs = <<>> THEN seen
    ELSE LET language == GroupLanguage(Head(fs))
         IN IF \E i \in 1..Len(seen) : seen[i] = language
            THEN LanguageOrder(seen, Tail(fs))
            ELSE LanguageOrder(Append(seen, language), Tail(fs))

FileLines(file_data) == file_data.content.lines

FileSize(file_data) == file_data.content.size

\* the first language met, whatever its file count
PrimaryLanguage_first_key(order, stats) ==
    IF order = <<>> THEN "Unknown" ELSE order[1]

\* max(language_stats.items(), key=file_count)[0]: the first greatest entry
\* in insertion order
PrimaryLanguage(order, stats) ==
    IF order = <<>> THEN "Unknown"
    ELSE LET best == {i \in 1..Len(order) :
                        \A j \in 1..Len(order) : stats[order[j]].file_count <= stats[order[i]].file_count}
         IN order[CHOOSE i \in best : \A j \in best : i <= j]

\* analyze_multi_language_files
analyze_multi_language_files(fs) ==
    LET order == LanguageOrder(<<>>, fs)
        langs == {order[i] : i \in 1..Len(order)}
        group == [l \in langs |-> SelectSeq(fs, LAMBDA f : GroupLanguage(f) = l)]
        stats == [l \in langs |->
                    [file_count  |-> Len(group[l]),
                     total_lines |-> SumSeq(Map(group[l], FileLines)),
                     total_size  |-> SumSeq(Map(group[l], FileSize))]]
    IN [languages_used    |-> order,
        files_by_language |-> group,
        language_stats    |-> stats,
        total_languages   |-> Len(order),
        primary_language  |-> PrimaryLanguage(order, stats)]

\* analyze_javascript_patterns over the regex match counts of a content
analyze_javascript_patterns(content) ==
    [naming_style   |-> IF content.js.camel > content.js.snake THEN "camelCase" ELSE "snake_case",
     function_style |-> [arrow_functions  |-> content.js.arrow,
                         function_keyword |-> content.js.function_kw,
                         preferred_style  |-> IF content.js.arrow > content.js.function_kw
                                              THEN "arrow" ELSE "function"],
     error_handling |-> [try_catch_count |-> content.js.try_blocks,
                         promise_count   |-> content.js.promises],
     async_patterns |-> [async_functions |-> content.js.async_functions,
                         await_usage     |-> content.js.await_usage],
     module_system  |-> content.js.module]

\* analyze_java_patterns over the regex match counts of a content
analyze_java_patterns(content) ==
    [naming_style     |-> "camelCase",
     access_modifiers |-> [public    |-> content.java.public,
                           private   |-> content.java.private,
                           protected |-> content.java.protected],
     error_handling   |-> [try_catch_count |-> content.java.try_blocks],
     documentation    |-> content.java.javadoc]

\* the values merge_patterns finds under each key: dictionaries, numbers,
\* or strings (isinstance tests of lines 296 and 298)
DictKeys == {"function_style", "error_handling", "async_patterns", "access_modifiers"}

NumberKeys == {"arrow_functions", "function_keyword", "try_catch_count", "promise_count",
               "async_functions", "await_usage", "public", "private", "protected",
               "documentation"}

\* merge_patterns: dictionaries are functions on their keys, {} is <<>>
RECURSIVE merge_patterns(_, _)
merge_patterns(base, new) ==
    [k \in DOMAIN base \cup DOMAIN new |->
        IF k \notin DOMAIN new THEN base[k]
        ELSE IF k \notin DOMAIN base THEN new[k]
        ELSE IF k \in DictKeys THEN merge_patterns(base[k], new[k])
        ELSE IF k \in NumberKeys THEN base[k] + new[k]
        ELSE base[k]]

\* the loops of lines 121-123 and 126-128
RECURSIVE MergeAll(_, _)
MergeAll(patterns, file_patterns) ==
    IF file_patterns = <<>> THEN patterns
    ELSE MergeAll(merge_patterns(patterns, Head(file_patterns)), Tail(file_patterns))

JavaScriptFilePatterns(file_data) == analyze_javascript_patterns(file_data.content)

JavaFilePatterns(file_data) == analyze_java_patterns(file_data.content)

\* analyze_generic_patterns; avg_file_size is the quotient num / den
analyze_generic_patterns(fs) ==
    LET total_lines == SumSeq(Map(fs, FileLines))
    IN [total_files   |-> Len(fs),
        total_lines   |-> total_lines,
        avg_file_size |-> IF Len(fs) > 0 THEN [num |-> total_lines, den |-> Len(fs)]
                          ELSE [num |-> 0, den |-> 1]]

\* lines 106-112: the patterns kept from the Python analyzer's report
PythonPatterns(python_report) ==
    [naming_style |-> python_report.naming_style,
     documentation_percentage |-> python_report.documentation_percentage,
     type_hints_percentage |-> python_report.type_hints_percentage,
     error_handling_style |-> python_report.error_handling_style,
     code_quality |-> python_report.code_quality_score]

\* lines 99-134: the patterns of one language group.  analyze_code_files
\* raises nothing, so the handler of lines 114-118 never runs.
LanguagePatterns(language, lang_files) ==
    IF language = "Python"
    THEN PythonPatterns(analyze_code_files(Take(lang_files, SampleCap)).report)
    ELSE IF language \in {"JavaScript", "TypeScript"}
    THEN MergeAll(<<>>, Map(Take(lang_files, SampleCap), JavaScriptFilePatterns))
    ELSE IF language = "Java"
    THEN MergeAll(<<>>, Map(Take(lang_files, SampleCap), JavaFilePatterns))
    ELSE analyze_generic_patterns(lang_files)

\* calculate_overall_quality.  The 'docstrings' key belongs to the fallback
\* patterns of analyze_python_patterns only, which are never built.
calculate_overall_quality(patterns) ==
    LET lang_count       == Len(patterns.languages_used)
        primary_lang     == patterns.primary_language
        primary_patterns == IF primary_lang \in DOMAIN patterns.patterns_by_language
                            THEN patterns.patterns_by_language[primary_lang] ELSE <<>>
        bonus == IF "error_handling" \in DOMAIN primary_patterns
                 THEN (IF "style" \in DOMAIN primary_patterns.error_handling
                       THEN (IF primary_patterns.error_handling.style # "basic" THEN 10 ELSE 0)
                       ELSE 10)
                 ELSE 0
    IN Min(100, Max(0, 50 + Min(lang_count * 5, 20) + bonus))

\* generate_multi_language_report
generate_multi_language_report(patterns) ==
    LET languages        == patterns.languages_used
        primary_lang     == patterns.primary_language
        primary_patterns == IF primary_lang \in DOMAIN patterns.patterns_by_language
                            THEN patterns.patterns_by_language[primary_lang] ELSE <<>>
        found_style      == IF "naming_style" \in DOMAIN primary_patterns
                            THEN primary_patterns.naming_style ELSE "mixed"
        naming_style     == IF found_style # "mixed" THEN found_style
                            ELSE IF primary_lang = "Python" THEN "snake_case"
                            ELSE IF primary_lang \in {"Java", "JavaScript", "TypeScript", "C++", "C#"}
                                 THEN "camelCase"
                            ELSE "mixed"
        doc_percentage   == IF "documentation_percentage" \in DOMAIN primary_patterns
                            THEN primary_patterns.documentation_percentage ELSE 0
        error_style      == IF "error_handling_style" \in DOMAIN primary_patterns
                            THEN primary_patterns.error_handling_style
                            ELSE IF "error_handling" \in DOMAIN primary_patterns
                                    /\ "style" \in DOMAIN primary_patterns.error_handling
                                 THEN primary_patterns.error_handling.style
                            ELSE "basic"
    IN [languages_detected |-> languages,
        primary_language |-> primary_lang,
        total_languages |-> Len(languages),
        language_distribution |-> patterns.language_stats,
        primary_language_patterns |-> primary_patterns,
        all_patterns |-> patterns.patterns_by_language,
        naming_style |-> naming_style,
        naming_confidence |-> 850,
        documentation_percentage |-> doc_percentage,
        type_hints_percentage |-> IF "type_hints_percentage" \in DOMAIN primary_patterns
                                  THEN primary_patterns.type_hints_percentage ELSE 0,
        error_handling_style |-> error_style,
        code_quality_score |-> calculate_overall_quality(patterns),
        total_functions |-> SumSeq([i \in 1..Len(languages) |->
                                      patterns.language_stats[languages[i]].file_count]),
        total_files |-> Len(patterns.files_analyzed)]

\* lines 67-83: the report of the all-Python path, built from the report r
\* of analyze_code_files(fs)
PythonPathReport(r, fs) ==
       [naming_style |-> r.naming_style,
        naming_confidence |-> r.naming_confidence,
        documentation_percentage |-> r.documentation_percentage,
        type_hints_percentage |-> r.type_hints_percentage,
        error_handling_style |-> r.error_handling_style,
        code_quality_score |-> r.code_quality_score,
        total_functions |-> r.total_functions,
        total_classes |-> r.total_classes,
        total_lines |-> r.total_lines,
        files_analyzed |-> r.files_analyzed,
        languages_detected |-> <<"Python">>,
        primary_language |-> "Python",
        language_distribution |-> [l \in {"Python"} |-> [file_count |-> Len(fs)]],
        all_patterns |-> [l \in {"Python"} |->
                            [naming_style |-> r.naming_style,
                             documentation_percentage |-> r.documentation_percentage,
                             type_hints_percentage |-> r.type_hints_percentage,
                             error_handling_style |-> r.error_handling_style]]]

\* lines 90-137: the report of the per-language path, built from the
\* grouping lang_analysis of analyze_multi_language_files(fs)
MultiPathReport(lang_analysis, fs) ==
    LET langs == DOMAIN lang_analysis.files_by_language
    IN generate_multi_language_report(
         [languages_used |-> lang_analysis.languages_used,
          language_stats |-> lang_analysis.language_stats,
          primary_language |-> lang_analysis.primary_language,
          patterns_by_language |->
              [l \in langs |-> LanguagePatterns(l, lang_analysis.files_by_language[l])],
          files_analyzed |-> fs])

IsPython(file_data) == file_data.language = "Python"

\* lines 67-137: the Python files are counted in the list counted, the
\* report is built from the tagged list
PathReport(counted, tagged) ==
    IF Count(counted, IsPython) = Len(counted) /\ Len(counted) > 0
    THEN PythonPathReport(analyze_code_files(tagged).report, tagged)
    ELSE MultiPathReport(analyze_multi_language_files(tagged), tagged)

\* analyze_all_languages counting the Python files before it tags them
analyze_all_languages_count_first(fs) ==
    [files  |-> Map(fs, EnsureLanguage),
     report |-> PathReport(fs, Map(fs, EnsureLanguage))]

\* analyze_all_languages: the file records as the call leaves them, and the
\* report it returns
analyze_all_languages(fs) ==
    [files  |-> Map(fs, EnsureLanguage),
     report |-> PathReport(Map(fs, EnsureLanguage), Map(fs, EnsureLanguage))]

(***************************************************************************)
(* style_dna.py                                                            *)
(***************************************************************************)
\* lines 79-86: the naming bucket analyze_function counts a function in
DnaBucket(name) ==
    IF IsUpper(name) /\ Contains(name, "_") THEN "UPPER_CASE"
    ELSE IF Contains(name, "_") THEN "snake_case"
    ELSE IF name[1] \in UpperCh THEN "PascalCase"
    ELSE "camelCase"

\* detect_docstring_style taking a one-line docstring that names a section
\* for a Google one
detect_docstring_style_any_line(doc) ==
    IF doc.marks \cap {"args:", "returns:", "raises:", ":returns:"} # {} THEN "google"
    ELSE IF "parameters" \in doc.marks /\ "----------" \in doc.marks THEN "numpy"
    ELSE IF doc.marks \cap {":param", ":return:"} # {} THEN "sphinx"
    ELSE "simple"

\* detect_docstring_style over the markers found in the docstring; the
\* Sphinx marker ":returns:" holds the text "returns:"
detect_docstring_style(doc) ==
    IF doc.marks \cap {"args:", "returns:", "raises:", ":returns:"} # {} /\ "\n" \in doc.marks
    THEN "google"
    ELSE IF "parameters" \in doc.marks /\ "----------" \in doc.marks THEN "numpy"
    ELSE IF doc.marks \cap {":param", ":return:"} # {} THEN "sphinx"
    ELSE "simple"

DnaBuckets == <<"snake_case", "camelCase", "PascalCase", "UPPER_CASE">>

\* the accumulator extract_style_dna starts from
EmptyDna ==
    [naming |-> [b \in {DnaBuckets[i] : i \in 1..4} |-> 0],
     has_docstrings |-> 0, docstring_style |-> <<>>, docstring_length |-> <<>>,
     has_hints |-> 0, try_except |-> 0, error_style |-> <<>>, logging_usage |-> 0,
     avg_function_length |-> <<>>, avg_class_length |-> <<>>,
     function_count |-> 0, class_count |-> 0]

RECURSIVE Flatten(_)
Flatten(ss) == IF ss = <<>> THEN <<>> ELSE Head(ss) \o Flatten(Tail(ss))

NodeTries(node) == node.tries

NodeLogs(node) == node.logs

NodeSourceLines(node) == node.length + 1

NodeUnparsedLines(node) == node.unparsed

DocStyle(node) == detect_docstring_style(node.doc)

DocLength(node) == node.doc.length

\* analyze_file_patterns: analyze_function on every function, analyze_class
\* on every class
analyze_file_patterns(content) ==
    LET documented == SelectSeq(content.functions, HasDoc)
    IN [naming |-> [b \in {DnaBuckets[i] : i \in 1..4} |->
                      Cardinality({i \in 1..Len(content.functions) :
                                     DnaBucket(content.functions[i].name) = b})],
        docstring_style |-> Map(documented, DocStyle),
        docstring_length |-> Map(documented, DocLength),
        type_hints |-> Count(content.functions, IsTyped),
        error_handling |-> Flatten(Map(content.functions, NodeTries)),
        function_lengths |-> Map(content.functions, NodeSourceLines),
        class_lengths |-> Map(content.classes, NodeUnparsedLines),
        functions |-> Len(content.functions),
        classes |-> Len(content.classes),
        logging |-> Count(content.functions, NodeLogs) > 0]

\* aggregate_patterns
aggregate_patterns(all, p) ==
    [naming |-> [b \in DOMAIN all.naming |-> all.naming[b] + p.naming[b]],
     has_docstrings |-> all.has_docstrings + (IF p.docstring_style # <<>> THEN 1 ELSE 0),
     docstring_style |-> all.docstring_style \o p.docstring_style,
     docstring_length |-> all.docstring_length \o p.docstring_length,
     has_hints |-> all.has_hints + (IF p.type_hints > 0 THEN 1 ELSE 0),
     try_except |-> all.try_except + Len(p.error_handling),
     error_style |-> all.error_style \o p.error_handling,
     logging_usage |-> all.logging_usage + (IF p.logging THEN 1 ELSE 0),
     avg_function_length |-> all.avg_function_length \o p.function_lengths,
     avg_class_length |-> all.avg_class_length \o p.class_lengths,
     function_count |-> all.function_count + p.functions,
     class_count |-> all.class_count + p.classes]

\* the loop of extract_style_dna: empty contents and files the parser
\* rejects are passed over
RECURSIVE FoldDna(_, _)
FoldDna(all, fs) ==
    IF fs = <<>> THEN all
    ELSE LET content == Head(fs).content
         IN IF content.text = "empty" \/ content.parse # "ok"
            THEN FoldDna(all, Tail(fs))
            ELSE FoldDna(aggregate_patterns(all, analyze_file_patterns(content)), Tail(fs))

\* max(naming.items(), key=count): the first greatest bucket in key order
DominantNaming(naming) ==
    DnaBuckets[CHOOSE i \in 1..4 :
                 /\ \A j \in 1..4 : naming[DnaBuckets[j]] <= naming[DnaBuckets[i]]
                 /\ \A j \in 1..(i - 1) : naming[DnaBuckets[j]] < naming[DnaBuckets[i]]]

NamingTotal(naming) == SumSeq([i \in 1..4 |-> naming[DnaBuckets[i]]])

\* Counter(styles).most_common(1): the most frequent style, the one seen
\* first among equals
MostCommonStyle(styles) ==
    LET n(i) == Cardinality({j \in 1..Len(styles) : styles[j] = styles[i]})
    IN IF styles = <<>> THEN "simple"
       ELSE styles[CHOOSE i \in 1..Len(styles) :
                     /\ \A j \in 1..Len(styles) : n(j) <= n(i)
                     /\ \A j \in 1..(i - 1) : n(j) < n(i)]

\* calculate_quality_score as the numerator over total_files (> 0)
QualityNumerator(patterns, total_files) ==
    LET raw == 50 * total_files + 20 * patterns.has_docstrings
               + 15 * patterns.has_hints + 15 * patterns.try_except
    IN Max(0, Min(100 * total_files, raw))

\* calculate_consistency taking the snake_case count for the greatest count
calculate_consistency_snake_case(patterns, total_files) ==
    IF total_files = 0 \/ NamingTotal(patterns.naming) = 0 THEN [num |-> 0, den |-> 1]
    ELSE [num |-> 100 * patterns.naming["snake_case"],
          den |-> NamingTotal(patterns.naming)]

\* calculate_consistency: max_naming / total_naming * 100 as a pair
calculate_consistency(patterns, total_files) ==
    IF total_files = 0 \/ NamingTotal(patterns.naming) = 0 THEN [num |-> 0, den |-> 1]
    ELSE [num |-> 100 * patterns.naming[DominantNaming(patterns.naming)],
          den |-> NamingTotal(patterns.naming)]

\* determine_skill_level on quality = qnum / den, type_hints = 100 * h / den,
\* doc_score = 100 * d / den
determine_skill_level(qnum, h, d, den) ==
    IF qnum >= 80 * den /\ 100 * h >= 50 * den THEN "advanced"
    ELSE IF qnum >= 60 * den \/ 100 * d >= 50 * den THEN "intermediate"
    ELSE "beginner"

\* generate_insights with a naming insight for every naming bucket in use
generate_insights_every_bucket(patterns, total_files, qnum) ==
    LET total_naming == NamingTotal(patterns.naming)
        used         == SelectSeq(DnaBuckets, LAMBDA b : patterns.naming[b] > 0)
        d            == patterns.has_docstrings
        h            == patterns.has_hints
    IN [i \in 1..Len(used) |-> <<"naming", used[i], patterns.naming[used[i]], total_naming>>]
       \o (IF 100 * d >= 80 * total_files THEN << <<"documentation", "excellent">> >>
           ELSE IF 100 * d < 50 * total_files THEN << <<"documentation", "more">> >>
           ELSE <<>>)
       \o (IF 100 * h < 20 * total_files THEN << <<"type_hints">> >> ELSE <<>>)
       \o (IF patterns.logging_usage > 0 THEN << <<"logging">> >> ELSE <<>>)
       \o (IF qnum >= 75 * total_files THEN << <<"quality", "excellent">> >>
           ELSE IF qnum < 60 * total_files THEN << <<"quality", "improve">> >>
           ELSE <<>>)

\* generate_insights: each insight by its signal and the numbers in its text
generate_insights(patterns, total_files, qnum) ==
    LET total_naming == NamingTotal(patterns.naming)
        dominant     == DominantNaming(patterns.naming)
        d            == patterns.has_docstrings
        h            == patterns.has_hints
    IN (IF total_naming > 0
        THEN << <<"naming", dominant, patterns.naming[dominant], total_naming>> >> ELSE <<>>)
       \o (IF 100 * d >= 80 * total_files THEN << <<"documentation", "excellent">> >>
           ELSE IF 100 * d < 50 * total_files THEN << <<"documentation", "more">> >>
           ELSE <<>>)
       \o (IF 100 * h < 20 * total_files THEN << <<"type_hints">> >> ELSE <<>>)
       \o (IF patterns.logging_usage > 0 THEN << <<"logging">> >> ELSE <<>>)
       \o (IF qnum >= 75 * total_files THEN << <<"quality", "excellent">> >>
           ELSE IF qnum < 60 * total_files THEN << <<"quality", "improve">> >>
           ELSE <<>>)

\* build_dna_profile
build_dna_profile(patterns, total_files) ==
    IF total_files = 0
    THEN [naming_style |-> "snake_case", naming_confidence |-> 0,
          documentation_score |-> 0, docstring_style |-> "simple",
          type_hints_usage |-> 0, error_handling_score |-> 0,
          error_handling_style |-> "basic", code_quality_score |-> 500,
          consistency_score |-> 0, skill_level |-> "beginner", insights |-> <<>>]
    ELSE LET total_naming == NamingTotal(patterns.naming)
             dominant     == IF total_naming > 0 THEN DominantNaming(patterns.naming)
                             ELSE "snake_case"
             qnum         == QualityNumerator(patterns, total_files)
             consistency  == calculate_consistency(patterns, total_files)
             lengths      == patterns.avg_function_length
         IN [naming_style |-> dominant,
             naming_confidence |-> IF total_naming > 0
                                   THEN Round1(patterns.naming[dominant], total_naming) ELSE 0,
             documentation_score |-> Round1(patterns.has_docstrings, total_files),
             docstring_style |-> MostCommonStyle(patterns.docstring_style),
             type_hints_usage |-> Round1(patterns.has_hints, total_files),
             error_handling_score |-> Round1(patterns.try_except, total_files),
             error_handling_style |-> IF patterns.logging_usage > 0 THEN "logging" ELSE "basic",
             code_quality_score |-> RoundTenths(qnum, total_files),
             consistency_score |-> RoundTenths(consistency.num, consistency.den),
             skill_level |-> determine_skill_level(qnum, patterns.has_hints,
                                                   patterns.has_docstrings, total_files),
             total_files_analyzed |-> total_files,
             total_functions |-> patterns.function_count,
             total_classes |-> patterns.class_count,
             avg_function_length |-> IF lengths # <<>>
                                     THEN RoundTenths(SumSeq(lengths), Len(lengths)) ELSE 0,
             insights |-> generate_insights(patterns, total_files, qnum)]

\* extract_style_dna
extract_style_dna(code_files) ==
    IF Len(code_files) = 0 THEN build_dna_profile(EmptyDna, 0)
    ELSE build_dna_profile(FoldDna(EmptyDna, code_files), Len(code_files))

(***************************************************************************)
(* The inputs: file records {filename, content, language}.                 *)
(***************************************************************************)
NoDoc == [marks |-> {}, length |-> 0]

GoogleDoc == [marks |-> {"args:", "\n"}, length |-> 40]

SimpleDoc == [marks |-> {}, length |-> 12]

NoJs == [camel |-> 0, snake |-> 0, arrow |-> 0, function_kw |-> 0, try_blocks |-> 0,
         promises |-> 0, async_functions |-> 0, await_usage |-> 0, module |-> "unknown"]

NoJava == [public |-> 0, private |-> 0, protected |-> 0, try_blocks |-> 0, javadoc |-> 0]

\* the content '' : one (empty) line, nothing to parse
EmptyContent ==
    [text |-> "empty", lines |-> 1, size |-> 0, head |-> {}, css |-> FALSE,
     parse |-> "ok", functions |-> <<>>, classes |-> <<>>, assigns |-> <<>>,
     try_nodes |-> 0, if_nodes |-> 0, module_doc |-> FALSE, comment_lines |-> 0,
     regex_vars |-> <<>>, js |-> NoJs, java |-> NoJava]

\* a.py: a documented, typed function with a logged try block, a documented class
PyDoc ==
    [filename |-> <<"a", ".", "p", "y">>, language |-> NoTag,
     content |-> [EmptyContent EXCEPT
        !.text = "code", !.lines = 14, !.size = 300, !.head = {"def ", "class ", "import "},
        !.functions = << [name |-> <<"g", "_", "d">>, doc |-> GoogleDoc, typed |-> TRUE,
                          length |-> 6, logs |-> TRUE,
                          tries |-> << [has_specific_exceptions |-> TRUE,
                                        has_generic_except |-> FALSE,
                                        has_finally |-> FALSE, logs_error |-> FALSE] >>] >>,
        !.classes = << [name |-> <<"G", "d">>, doc |-> SimpleDoc, length |-> 3, unparsed |-> 4] >>,
        !.try_nodes = 1, !.comment_lines = 2,
        !.regex_vars = << <<"r">> >>]]

\* b.py: a module docstring and two assignments, already tagged by the caller
PyVars ==
    [filename |-> <<"b", ".", "p", "y">>, language |-> "Python",
     content |-> [EmptyContent EXCEPT
        !.text = "code", !.lines = 4, !.size = 40, !.module_doc = TRUE,
        !.assigns = << <<"x">>, <<"g", "_", "d">> >>, !.comment_lines = 1,
        !.regex_vars = << <<"x">>, <<"g", "_", "d">> >>]]

\* c.py: an unterminated block, the parser raises SyntaxError
PyBad ==
    [filename |-> <<"c", ".", "p", "y">>, language |-> NoTag,
     content |-> [EmptyContent EXCEPT
        !.text = "code", !.lines = 2, !.size = 20, !.head = {"def "},
        !.parse = "SyntaxError", !.regex_vars = << <<"m", "_", "v">> >>]]

\* d.PY: white space only
PyBlank ==
    [filename |-> <<"d", ".", "P", "Y">>, language |-> NoTag,
     content |-> [EmptyContent EXCEPT !.text = "blank", !.lines = 2, !.size = 3]]

\* e.py: one long camelCase function and two if statements, tagged Unknown
PyLong ==
    [filename |-> <<"e", ".", "p", "y">>, language |-> "Unknown",
     content |-> [EmptyContent EXCEPT
        !.text = "code", !.lines = 70, !.size = 900, !.head = {"def "},
        !.functions = << [name |-> <<"g", "D">>, doc |-> NoDoc, typed |-> FALSE,
                          length |-> 60, logs |-> FALSE, tries |-> <<>>] >>,
        !.if_nodes = 2]]

\* z.py: a NUL byte, the parser raises ValueError
PyErr ==
    [filename |-> <<"z", ".", "p", "y">>, language |-> NoTag,
     content |-> [EmptyContent EXCEPT
        !.text = "code", !.lines = 1, !.size = 5, !.parse = "Error"]]

\* k.py: one module constant, M_V = 1
PyConst ==
    [filename |-> <<"k", ".", "p", "y">>, language |-> NoTag,
     content |-> [EmptyContent EXCEPT
        !.text = "code", !.lines = 2, !.size = 8,
        !.assigns = << <<"M", "_", "V">> >>]]

\* h.py: one snake_case function with a one-line docstring
PyNote ==
    [filename |-> <<"h", ".", "p", "y">>, language |-> NoTag,
     content |-> [EmptyContent EXCEPT
        !.text = "code", !.lines = 3, !.size = 50, !.head = {"def "},
        !.functions = << [name |-> <<"n", "_", "d">>, doc |-> SimpleDoc, typed |-> FALSE,
                          length |-> 2, logs |-> FALSE, tries |-> <<>>] >>]]

\* run: no extension, a Python shebang and a PascalCase function
Script ==
    [filename |-> <<"r", "u", "n">>, language |-> NoTag,
     content |-> [EmptyContent EXCEPT
        !.text = "code", !.lines = 5, !.size = 60,
        !.head = {"#!/usr/bin/env python", "def "},
        !.functions = << [name |-> <<"G", "d">>, doc |-> NoDoc, typed |-> TRUE,
                          length |-> 2, logs |-> FALSE, tries |-> <<>>] >>,
        !.comment_lines = 2]]

\* f.js: camelCase JavaScript (not Python: the parser raises SyntaxError)
Js1 ==
    [filename |-> <<"f", ".", "j", "s">>, language |-> NoTag,
     content |-> [EmptyContent EXCEPT
        !.text = "code", !.lines = 5, !.size = 80, !.head = {"const", "=>", "import "},
        !.parse = "SyntaxError", !.regex_vars = << <<"x">> >>,
        !.js = [camel |-> 3, snake |-> 1, arrow |-> 2, function_kw |-> 1, try_blocks |-> 1,
                promises |-> 0, async_functions |-> 1, await_usage |-> 1, module |-> "ES6"]]]

\* g.JSX: snake_case JavaScript
Js2 ==
    [filename |-> <<"g", ".", "J", "S", "X">>, language |-> NoTag,
     content |-> [EmptyContent EXCEPT
        !.text = "code", !.lines = 3, !.size = 50, !.head = {"var", "require("},
        !.parse = "SyntaxError", !.regex_vars = << <<"m", "_", "v">> >>,
        !.js = [camel |-> 1, snake |-> 2, arrow |-> 0, function_kw |-> 2, try_blocks |-> 0,
                promises |-> 1, async_functions |-> 0, await_usage |-> 0, module |-> "CommonJS"]]]

\* M.java
JavaFile ==
    [filename |-> <<"M", ".", "j", "a", "v", "a">>, language |-> NoTag,
     content |-> [EmptyContent EXCEPT
        !.text = "code", !.lines = 8, !.size = 120, !.head = {"public class", "import java."},
        !.parse = "SyntaxError",
        !.java = [public |-> 2, private |-> 1, protected |-> 0, try_blocks |-> 1, javadoc |-> 1]]]

\* h.go: a language without an extractor of its own
GoFile ==
    [filename |-> <<"h", ".", "g", "o">>, language |-> NoTag,
     content |-> [EmptyContent EXCEPT
        !.text = "code", !.lines = 6, !.size = 70, !.head = {"package "},
        !.parse = "SyntaxError"]]

\* n.xyz: no known extension, no signature in the content
XyzFile ==
    [filename |-> <<"n", ".", "x", "y", "z">>, language |-> NoTag,
     content |-> [EmptyContent EXCEPT
        !.text = "code", !.lines = 1, !.size = 11, !.parse = "SyntaxError"]]

FilePool == {PyDoc, PyVars, PyBad, PyBlank, PyLong, PyErr, PyConst, PyNote, Script, Js1, Js2,
             JavaFile, GoFile, XyzFile}

\* the files of the batches longer than the sample
BatchFiles == {PyNote, PyLong, Js1}

\* batches longer than the sample: SampleCap files alike, then other files
LongLists ==
    {[i \in 1..MaxBatch |-> IF i <= SampleCap THEN f ELSE IF i < MaxBatch THEN g ELSE h] :
        f \in BatchFiles, g \in BatchFiles, h \in BatchFiles}

\* the file lists a caller may pass
InputLists == UNION {[1..n -> FilePool] : n \in 0..MaxFiles} \cup LongLists

\* fs with the files at positions i and j exchanged
Swap(fs, i, j) ==
    [k \in 1..Len(fs) |-> IF k = i THEN fs[j] ELSE IF k = j THEN fs[i] ELSE fs[k]]

(***************************************************************************)
(* The calls.  files is the list object the caller keeps between calls     *)
(* (analyze_all_languages writes the language tags into its records), orig *)
(* the list as it was supplied, perm a reordering of orig given to a       *)
(* separate call.                                                          *)
(***************************************************************************)
NoReport == [pending |-> TRUE]

\* models.py, line 11: sessions_db = {}; the clock starts at day 0
NoSessions ==
    /\ sessions_db = <<>>
    /\ now = 0
    /\ issued = 0

\* the clients whose analysis requests the server handles
Requests == {"r1", "r2"}

\* app.py, lines 19-22: both progress dictionaries empty, the lock free, no
\* request received
NoRequests ==
    /\ github_progress = <<>>
    /\ file_upload_progress = <<>>
    /\ progress_lock = "free"
    /\ requests = [r \in Requests |-> [handler |-> "none", key |-> "", pc |-> "idle"]]

\* no single call is made
NoCall == [fn |-> "none"]

NotReturned == [pending |-> TRUE]

\* no request was answered yet
NoResponse == [handler |-> "none", status |-> 0]

Init ==
    /\ orig \in InputLists
    /\ files = orig
    /\ perm = orig
    /\ pc = "ready"
    /\ report = NoReport
    /\ first = NoReport
    /\ permReport = NoReport
    /\ codeReport = NoReport
    /\ codeTotals = EmptyPatterns
    /\ dnaReport = NoReport
    /\ objects = <<>>
    /\ profiles_db = <<>>
    /\ response = NoResponse
    /\ call = NoCall
    /\ returned = NotReturned
    /\ NoSessions
    /\ NoRequests

\* analyze_all_languages(files): the first call, then a second call on the
\* same list object
AnalyzeAllLanguagesCall ==
    /\ pc \in {"ready", "analyzed"}
    /\ files' = analyze_all_languages(files).files
    /\ report' = analyze_all_languages(files).report
    /\ first' = IF pc = "ready" THEN report' ELSE first
    /\ pc' = IF pc = "ready" THEN "analyzed" ELSE "reanalyzed"
    /\ UNCHANGED <<orig, perm, permReport, codeReport, codeTotals, dnaReport>>
    /\ UNCHANGED storeVars
    /\ UNCHANGED <<unitVars, sessionVars, progressVars>>

\* analyze_code_files(files)
AnalyzeCodeFilesCall ==
    /\ pc = "reanalyzed"
    /\ codeTotals' = analyze_code_files(files).patterns
    /\ codeReport' = analyze_code_files(files).report
    /\ pc' = "coded"
    /\ UNCHANGED <<files, orig, perm, report, first, permReport, dnaReport>>
    /\ UNCHANGED storeVars
    /\ UNCHANGED <<unitVars, sessionVars, progressVars>>

\* extract_style_dna(files)
ExtractStyleDnaCall ==
    /\ pc = "coded"
    /\ dnaReport' = extract_style_dna(files)
    /\ pc' = "profiled"
    /\ UNCHANGED <<files, orig, perm, report, first, permReport, codeReport, codeTotals>>
    /\ UNCHANGED storeVars
    /\ UNCHANGED <<unitVars, sessionVars, progressVars>>

\* analyze_all_languages on the supplied list with two of its files exchanged
AnalyzePermutedCall ==
    /\ pc = "profiled"
    /\ \E i, j \in 1..Max(Len(orig), 1) :
         /\ i <= j
         /\ perm' = IF orig = <<>> THEN orig ELSE Swap(orig, i, j)
    /\ permReport' = analyze_all_languages(perm').report
    /\ pc' = "done"
    /\ UNCHANGED <<files, orig, report, first, codeReport, codeTotals, dnaReport>>
    /\ UNCHANGED storeVars
    /\ UNCHANGED <<unitVars, sessionVars, progressVars>>

Next ==
    \/ AnalyzeAllLanguagesCall
    \/ AnalyzeCodeFilesCall
    \/ ExtractStyleDnaCall
    \/ AnalyzePermutedCall

Spec == Init /\ [][Next]_vars

(***************************************************************************)
(* models.py.  A style profile is a dict: a function on its keys.  objects *)
(* holds the style profile dicts that were stored, each at the position     *)
(* that stands for its identity; a UserProfile refers to its style_dna by   *)
(* that position, 0 standing for None.  Percentages are in tenths.          *)
(***************************************************************************)
\* d.get(k, default)
Get(d, k, default) == IF k \in DOMAIN d THEN d[k] ELSE default

\* d[k] = v
Put(d, k, v) == [x \in DOMAIN d \cup {k} |-> IF x = k THEN v ELSE d[x]]

\* initial_quality_score and current_quality_score before a profile is saved
NoScore == -1

\* UserProfile.__init__
UserProfile(user_id) ==
    [user_id |-> user_id, skill_level |-> "beginner", naming_convention |-> "snake_case",
     total_interactions |-> 0, suggestions_accepted |-> 0, suggestions_rejected |-> 0,
     style_confidence |-> 0,
     patterns |-> [naming_style |-> "none", uses_docstrings |-> FALSE,
                   uses_type_hints |-> FALSE, error_handling |-> "basic"],
     style_dna |-> 0, dna_extracted |-> FALSE,
     initial_quality_score |-> NoScore, current_quality_score |-> NoScore]

\* lines 179-207 of save_style_profile: the UserProfile after the dict data,
\* kept at position ref, is stored in it.  style_confidence is
\* naming_confidence / 100.0, kept as naming_confidence.
StoreInProfile(profile, data, ref) ==
    [profile EXCEPT
       !.style_dna = ref,
       !.dna_extracted = TRUE,
       !.naming_convention = Get(data, "naming_style", "snake_case"),
       !.style_confidence = Get(data, "naming_confidence", 0),
       !.patterns = [naming_style    |-> Get(data, "naming_style", "snake_case"),
                     uses_docstrings |-> Get(data, "documentation_percentage", 0) > 500,
                     uses_type_hints |-> Get(data, "type_hints_percentage", 0) > 500,
                     error_handling  |-> Get(data, "error_handling_style", "basic")],
       !.initial_quality_score = IF profile.initial_quality_score = NoScore
                                 THEN Get(data, "code_quality_score", 50)
                                 ELSE profile.initial_quality_score,
       !.current_quality_score = Get(data, "code_quality_score", 50),
       !.skill_level = IF Get(data, "code_quality_score", 50) >= 80 THEN "advanced"
                       ELSE IF Get(data, "code_quality_score", 50) >= 60 THEN "intermediate"
                       ELSE "beginner"]

\* save_style_profile: profiles_db after the call
save_style_profile(db, user_id, data, ref) ==
    Put(db, user_id,
        StoreInProfile(IF user_id \in DOMAIN db THEN db[user_id] ELSE UserProfile(user_id),
                       data, ref))

\* get_style_profile: the position of the stored dict, 0 for None (no
\* profile, no style_dna, or an empty dict)
get_style_profile(db, objs, user_id) ==
    IF user_id \in DOMAIN db /\ db[user_id].style_dna # 0 /\ DOMAIN objs[db[user_id].style_dna] # {}
    THEN db[user_id].style_dna
    ELSE 0

\* lines 224-229 of update_style_profile_from_feedback
CountFeedback(profile, feedback_data) ==
    [profile EXCEPT
       !.total_interactions = @ + 1,
       !.suggestions_accepted = IF feedback_data.action = "accept" THEN @ + 1 ELSE @,
       !.suggestions_rejected = IF feedback_data.action = "accept" THEN @ ELSE @ + 1]

\* update_style_profile_from_feedback: profiles_db after the call
update_style_profile_from_feedback(db, objs, user_id, feedback_data) ==
    IF get_style_profile(db, objs, user_id) = 0 THEN db
    ELSE Put(db, user_id, CountFeedback(db[user_id], feedback_data))

(***************************************************************************)
(* app.py: the handlers that read or store a style profile.  A text of a    *)
(* request is the record of what the handlers look for in it.               *)
(***************************************************************************)
\* the empty string
NoText ==
    [empty |-> TRUE, triple |-> FALSE, colon_space |-> FALSE, has_def |-> FALSE,
     has_try |-> FALSE, has_except |-> FALSE, colon_segment |-> FALSE, name_len |-> 0]

\* 'x = 1': no function definition
ScriptCode == [NoText EXCEPT !.empty = FALSE]

\* 'def f(a):\n    return a'
PlainCode == [NoText EXCEPT !.empty = FALSE, !.has_def = TRUE, !.name_len = 1]

\* 'def fetch_rows(a: int):\n    """Doc"""\n    try:\n        return a\n
\*      except ValueError:\n        pass'
RichCode ==
    [empty |-> FALSE, triple |-> TRUE, colon_space |-> TRUE, has_def |-> TRUE,
     has_try |-> TRUE, has_except |-> TRUE, colon_segment |-> FALSE, name_len |-> 10]

\* 'def : ': the text after 'def ' is exactly ': '
ColonCode ==
    [NoText EXCEPT !.empty = FALSE, !.colon_space = TRUE, !.has_def = TRUE,
                   !.colon_segment = TRUE]

\* the suggestion and the user_code of a feedback request
Suggestions == {NoText, PlainCode, RichCode}

UserCodes == {PlainCode, RichCode, ColonCode}

\* the code of a learning request and the code of the option chosen in it
LearnCodes == {NoText, PlainCode}

SelectedCodes == {NoText, ScriptCode, PlainCode, RichCode}

\* get_user_from_request: the user of the session token, or None
NoUser == "<none>"

Requesters == {"u1", NoUser}

\* lines 1546-1570 of handle_feedback: the assignments to updated_profile
AcceptedProfile(current_profile, suggestion, user_code) ==
    [k \in DOMAIN current_profile \cup
           (IF suggestion.triple /\ ~user_code.triple
            THEN {"documentation_percentage"} ELSE {}) \cup
           (IF suggestion.colon_space /\ suggestion.has_def /\ ~user_code.colon_segment
            THEN {"type_hints_percentage"} ELSE {}) \cup
           (IF suggestion.has_try /\ suggestion.has_except /\ ~user_code.has_try
            THEN {"error_handling_style"} ELSE {}) \cup
           {"code_quality_score"} |->
        IF k = "documentation_percentage" /\ suggestion.triple /\ ~user_code.triple
        THEN Min(Get(current_profile, k, 0) + 50, 1000)
        ELSE IF k = "type_hints_percentage" /\ suggestion.colon_space /\ suggestion.has_def
                /\ ~user_code.colon_segment
        THEN Min(Get(current_profile, k, 0) + 30, 1000)
        ELSE IF k = "error_handling_style" /\ suggestion.has_try /\ suggestion.has_except
                /\ ~user_code.has_try
        THEN "try_except"
        ELSE IF k = "code_quality_score" THEN Min(Get(current_profile, k, 50) + 1, 100)
        ELSE current_profile[k]]

\* handle_feedback writing to current_profile itself instead of a copy
FeedbackObjects_in_place(objs, ref, updated_profile) ==
    IF ref = 0 THEN objs ELSE [objs EXCEPT ![ref] = updated_profile]

\* line 1546 of handle_feedback: updated_profile = current_profile.copy(),
\* so the stored dicts are what they were whatever is assigned to the copy
\* (ref is the position of current_profile when it is a stored dict)
FeedbackObjects(objs, ref, updated_profile) == objs

\* lines 1542-1584 of handle_feedback, once current_profile is known: a
\* reject returns current_profile, an accept without a suggestion returns
\* nothing, which the framework answers with status 500
FeedbackAnswer(objs, ref, current_profile, action, suggestion, user_code) ==
    IF action = "accept" /\ ~suggestion.empty
    THEN [status |-> 200,
          profile |-> AcceptedProfile(current_profile, suggestion, user_code),
          objects |-> FeedbackObjects(objs, ref,
                          AcceptedProfile(current_profile, suggestion, user_code))]
    ELSE IF action = "reject"
    THEN [status |-> 200, profile |-> current_profile, objects |-> objs]
    ELSE [status |-> 500, profile |-> <<>>, objects |-> objs]

\* handle_feedback: the response, and the stored dicts after the call.
\* sent is the style_profile of the request body, <<>> when there is none.
handle_feedback(objs, db, user, action, suggestion, user_code, sent) ==
    IF action \notin {"accept", "reject"}
    THEN [status |-> 400, profile |-> <<>>, objects |-> objs]
    ELSE IF user = NoUser
    THEN [status |-> 200, profile |-> <<>>, objects |-> objs]
    ELSE IF DOMAIN sent = {} /\ get_style_profile(db, objs, user) = 0
    THEN [status |-> 400, profile |-> <<>>, objects |-> objs]
    ELSE FeedbackAnswer(objs, IF DOMAIN sent # {} THEN 0 ELSE get_style_profile(db, objs, user),
                        IF DOMAIN sent # {} THEN sent
                        ELSE objs[get_style_profile(db, objs, user)],
                        action, suggestion, user_code)

\* lines 1304-1313 of learn_from_interaction: the default beginner profile
DefaultBeginnerProfile ==
    [naming_style |-> "snake_case", naming_confidence |-> 0,
     documentation_percentage |-> 0, type_hints_percentage |-> 0,
     error_handling_style |-> "basic", code_quality_score |-> 50,
     interactions |-> 0, is_beginner_mode |-> TRUE]

\* lines 1316-1361 of learn_from_interaction: the assignments to
\* updated_profile.  selected_code is the code of the chosen option, the
\* empty string when no option was chosen or found; confidence is
\* min(interactions / 10.0, 1.0), kept in tenths.
LearnedProfile(current_profile, selected_code) ==
    [k \in DOMAIN current_profile \cup {"interactions", "confidence", "code_quality_score"} \cup
           (IF ~selected_code.empty /\ selected_code.name_len > 5
            THEN {"naming_style", "naming_confidence"} ELSE {}) \cup
           (IF ~selected_code.empty /\ selected_code.triple
            THEN {"documentation_percentage"} ELSE {}) \cup
           (IF ~selected_code.empty /\ selected_code.colon_space /\ selected_code.has_def
            THEN {"type_hints_percentage"} ELSE {}) \cup
           (IF ~selected_code.empty /\ selected_code.has_try /\ selected_code.has_except
            THEN {"error_handling_style"} ELSE {}) |->
        IF k = "interactions" THEN Get(current_profile, k, 0) + 1
        ELSE IF k = "confidence" THEN Min(Get(current_profile, "interactions", 0) + 1, 10)
        ELSE IF k = "code_quality_score"
        THEN Min(Get(current_profile, k, 50) + (Get(current_profile, "interactions", 0) + 1) * 2, 100)
        ELSE IF ~selected_code.empty /\ selected_code.name_len > 5 /\ k = "naming_style"
        THEN "descriptive_snake_case"
        ELSE IF ~selected_code.empty /\ selected_code.name_len > 5 /\ k = "naming_confidence"
        THEN Min(Get(current_profile, k, 0) + 100, 1000)
        ELSE IF ~selected_code.empty /\ selected_code.triple /\ k = "documentation_percentage"
        THEN Min(Get(current_profile, k, 0) + 100, 1000)
        ELSE IF ~selected_code.empty /\ selected_code.colon_space /\ selected_code.has_def
                /\ k = "type_hints_percentage"
        THEN Min(Get(current_profile, k, 0) + 100, 1000)
        ELSE IF ~selected_code.empty /\ selected_code.has_try /\ selected_code.has_except
                /\ k = "error_handling_style"
        THEN "try_except"
        ELSE current_profile[k]]

\* lines 1363-1371: the updated profile is stored as a new dict
LearnAnswer(objs, db, user, updated_profile) ==
    [status |-> 200, profile |-> updated_profile,
     objects |-> Append(objs, updated_profile),
     profiles_db |-> save_style_profile(db, user, updated_profile, Len(objs) + 1)]

\* learn_from_interaction: the response, the stored dicts and profiles_db
\* after the call.  A chosen code without 'def ' raises IndexError at line
\* 1329, which the handler answers with status 500.
learn_from_interaction(objs, db, user, user_code, selected_code) ==
    IF user = NoUser
    THEN [status |-> 200, profile |-> <<>>, objects |-> objs, profiles_db |-> db]
    ELSE IF user_code.empty
    THEN [status |-> 400, profile |-> <<>>, objects |-> objs, profiles_db |-> db]
    ELSE IF ~selected_code.empty /\ ~selected_code.has_def
    THEN [status |-> 500, profile |-> <<>>, objects |-> objs, profiles_db |-> db]
    ELSE LearnAnswer(objs, db, user,
                     LearnedProfile(IF get_style_profile(db, objs, user) = 0
                                    THEN DefaultBeginnerProfile
                                    ELSE objs[get_style_profile(db, objs, user)],
                                    selected_code))

\* save_style_profile_endpoint: the response, the stored dicts and
\* profiles_db after the call
save_style_profile_endpoint(objs, db, user, sent) ==
    IF DOMAIN sent = {}
    THEN [status |-> 400, objects |-> objs, profiles_db |-> db]
    ELSE IF user = NoUser
    THEN [status |-> 200, objects |-> objs, profiles_db |-> db]
    ELSE [status |-> 200, objects |-> Append(objs, sent),
          profiles_db |-> save_style_profile(db, user, sent, Len(objs) + 1)]

(***************************************************************************)
(* The requests.  The bodies a client sends are drawn from small sets.      *)
(***************************************************************************)
MaxProfiles == 2

MaxInteractions == 1

\* a profile with a high score and no type hints
SentCamel ==
    [naming_style |-> "camelCase", naming_confidence |-> 900,
     documentation_percentage |-> 0, type_hints_percentage |-> 0,
     error_handling_style |-> "basic", code_quality_score |-> 85]

\* a profile without the naming keys: documented, typed, a low score
SentDocumented ==
    [documentation_percentage |-> 980, type_hints_percentage |-> 990,
     code_quality_score |-> 55]

\* the batches whose report a client got from the analysis and sends back
ReportBatches == { <<Js1, PyLong, GoFile, XyzFile>> }

SentReports == {analyze_all_languages(fs).report : fs \in ReportBatches}

\* the style_profile of a request body; <<>> when the body has none
SentProfiles == {<<>>, SentCamel, SentDocumented} \cup SentReports

ProfileInit ==
    /\ orig = <<>>
    /\ files = <<>>
    /\ perm = <<>>
    /\ pc = "ready"
    /\ report = NoReport
    /\ first = NoReport
    /\ permReport = NoReport
    /\ codeReport = NoReport
    /\ codeTotals = EmptyPatterns
    /\ dnaReport = NoReport
    /\ objects = <<>>
    /\ profiles_db = <<>>
    /\ response = NoResponse
    /\ call = NoCall
    /\ returned = NotReturned
    /\ NoSessions
    /\ NoRequests

\* POST /api/save-style-profile
SaveStyleProfileRequest ==
    /\ Len(objects) < MaxProfiles
    /\ \E user \in Requesters, sent \in SentProfiles :
         /\ objects' = save_style_profile_endpoint(objects, profiles_db, user, sent).objects
         /\ profiles_db' = save_style_profile_endpoint(objects, profiles_db, user, sent).profiles_db
         /\ response' = [handler |-> "save_style_profile_endpoint",
                         status |-> save_style_profile_endpoint(objects, profiles_db, user, sent).status]
    /\ UNCHANGED analysisVars
    /\ UNCHANGED <<unitVars, sessionVars, progressVars>>

\* POST /api/feedback
HandleFeedbackRequest ==
    /\ \E user \in Requesters, action \in {"accept", "reject", ""},
          suggestion \in Suggestions, user_code \in UserCodes, sent \in SentProfiles :
         /\ objects' = handle_feedback(objects, profiles_db, user, action,
                                       suggestion, user_code, sent).objects
         /\ response' = [handler |-> "handle_feedback",
                         status |-> handle_feedback(objects, profiles_db, user, action,
                                                    suggestion, user_code, sent).status,
                         profile |-> handle_feedback(objects, profiles_db, user, action,
                                                     suggestion, user_code, sent).profile,
                         current |-> IF DOMAIN sent # {} THEN 0
                                     ELSE get_style_profile(profiles_db, objects, user)]
    /\ UNCHANGED <<profiles_db, analysisVars>>
    /\ UNCHANGED <<unitVars, sessionVars, progressVars>>

\* POST /api/learn-from-interaction
LearnFromInteractionRequest ==
    /\ Len(objects) < MaxProfiles
    /\ \E user \in Requesters, user_code \in LearnCodes, selected_code \in SelectedCodes :
         /\ objects' = learn_from_interaction(objects, profiles_db, user,
                                              user_code, selected_code).objects
         /\ profiles_db' = learn_from_interaction(objects, profiles_db, user,
                                                  user_code, selected_code).profiles_db
         /\ response' = [handler |-> "learn_from_interaction",
                         status |-> learn_from_interaction(objects, profiles_db, user,
                                                           user_code, selected_code).status,
                         profile |-> learn_from_interaction(objects, profiles_db, user,
                                                            user_code, selected_code).profile]
    /\ UNCHANGED analysisVars
    /\ UNCHANGED <<unitVars, sessionVars, progressVars>>

\* update_style_profile_from_feedback(user_id, feedback_data)
UpdateFromFeedbackCall ==
    /\ \E user_id \in Requesters \ {NoUser}, action \in {"accept", "reject"} :
         /\ user_id \in DOMAIN profiles_db =>
                profiles_db[user_id].total_interactions < MaxInteractions
         /\ profiles_db' = update_style_profile_from_feedback(profiles_db, objects, user_id,
                                                              [action |-> action])
    /\ UNCHANGED <<objects, response, analysisVars>>
    /\ UNCHANGED <<unitVars, sessionVars, progressVars>>

ProfileNext ==
    \/ SaveStyleProfileRequest
    \/ HandleFeedbackRequest
    \/ LearnFromInteractionRequest
    \/ UpdateFromFeedbackCall

ProfileSpec == ProfileInit /\ [][ProfileNext]_vars

(***************************************************************************)
(* Single calls.  One function is called once on one argument: call is the *)
(* function's name and its argument, returned what it returned.            *)
(***************************************************************************)
\* the totals analyze_code_files can gather from files of at most
\* MaxFunctions functions: the functions' lengths, how many of them are
\* documented and typed, a try statement or none, comments or none
QualityLengths == {20, 60, 120}

QualityTotals ==
    {[EmptyPatterns EXCEPT
        !.function_names = [i \in 1..Len(ls) |-> <<"f">>],
        !.total_functions = Len(ls),
        !.function_lengths = ls,
        !.has_docstrings = d,
        !.has_type_hints = t,
        !.functions_with_type_hints = t,
        !.try_except = e,
        !.total_lines = SumSeq(ls) + Len(ls) + 5,
        !.comment_lines = IF c THEN (SumSeq(ls) + Len(ls) + 5) \div 5 + 1 ELSE 0,
        !.files_analyzed = 1] :
     ls \in UNION {[1..n -> QualityLengths] : n \in 0..MaxFunctions},
     d \in 0..MaxFunctions, t \in 0..MaxFunctions, e \in 0..1, c \in BOOLEAN}

QualityCalls ==
    {[fn |-> "calculate_code_quality", arg |-> p] :
        p \in {q \in QualityTotals : /\ q.has_docstrings <= q.total_functions
                                     /\ q.has_type_hints <= q.total_functions}}

\* the identifiers of at most MaxNameLen characters
NameChars == {"g", "D", "_"}

Identifiers == UNION {[1..n -> NameChars] : n \in 1..MaxNameLen}

\* a file content whose only node is a function of that name
FunctionNamed(name) ==
    [EmptyContent EXCEPT
        !.text = "code", !.lines = 2, !.size = 20, !.head = {"def "},
        !.functions = << [name |-> name, doc |-> NoDoc, typed |-> FALSE,
                          length |-> 1, logs |-> FALSE, tries |-> <<>>] >>]

NamingCalls ==
    {[fn |-> "detect_naming_style", arg |-> <<n>>] : n \in Identifiers}
    \cup {[fn |-> "analyze_function", arg |-> n] : n \in Identifiers}

\* file names with no recognized extension: run, n.xyz
PlainNames == { <<"r", "u", "n">>, <<"n", ".", "x", "y", "z">> }

\* the signatures a content may hold in its first 500 characters, lower-cased
Signatures == {"#include <", "namespace", "std::", "public class", "import java.",
               "<!doctype html>", "<html", "const"}

DetectCalls ==
    {[fn |-> "detect_language_from_content",
      arg |-> [filename |-> f,
               content |-> [EmptyContent EXCEPT !.text = "code", !.size = 60, !.head = h]]] :
        f \in PlainNames, h \in SUBSET Signatures}

\* the markers a docstring may hold ("\n": it has more than one line)
DocMarks == {"args:", "returns:", "raises:", "\n", "parameters", "----------",
             ":param", ":return:"}

\* non-empty docstrings
DocstringCalls ==
    {[fn |-> "detect_docstring_style", arg |-> [marks |-> m, length |-> 12]] :
        m \in SUBSET DocMarks}

\* every single call
Calls == QualityCalls \cup NamingCalls \cup DetectCalls \cup DocstringCalls

UnitInit ==
    /\ orig = <<>>
    /\ files = <<>>
    /\ perm = <<>>
    /\ pc = "ready"
    /\ report = NoReport
    /\ first = NoReport
    /\ permReport = NoReport
    /\ codeReport = NoReport
    /\ codeTotals = EmptyPatterns
    /\ dnaReport = NoReport
    /\ objects = <<>>
    /\ profiles_db = <<>>
    /\ response = NoResponse
    /\ call \in Calls
    /\ returned = NotReturned
    /\ NoSessions
    /\ NoRequests

\* calculate_code_quality(patterns)
CalculateCodeQualityCall ==
    /\ call.fn = "calculate_code_quality"
    /\ returned = NotReturned
    /\ returned' = [value |-> calculate_code_quality(call.arg)]
    /\ UNCHANGED <<call, analysisVars, storeVars, sessionVars, progressVars>>

\* detect_naming_style(names)
DetectNamingStyleCall ==
    /\ call.fn = "detect_naming_style"
    /\ returned = NotReturned
    /\ returned' = detect_naming_style(call.arg)
    /\ UNCHANGED <<call, analysisVars, storeVars, sessionVars, progressVars>>

\* analyze_function(node, patterns, code) on the function of a file:
\* patterns['naming'] as it leaves it
AnalyzeFunctionCall ==
    /\ call.fn = "analyze_function"
    /\ returned = NotReturned
    /\ returned' = [naming |-> analyze_file_patterns(FunctionNamed(call.arg)).naming]
    /\ UNCHANGED <<call, analysisVars, storeVars, sessionVars, progressVars>>

\* detect_language_from_content(filename, content)
DetectLanguageFromContentCall ==
    /\ call.fn = "detect_language_from_content"
    /\ returned = NotReturned
    /\ returned' = [language |-> detect_language_from_content(call.arg.filename,
                                                              call.arg.content)]
    /\ UNCHANGED <<call, analysisVars, storeVars, sessionVars, progressVars>>

\* detect_docstring_style(docstring)
DetectDocstringStyleCall ==
    /\ call.fn = "detect_docstring_style"
    /\ returned = NotReturned
    /\ returned' = [style |-> detect_docstring_style(call.arg)]
    /\ UNCHANGED <<call, analysisVars, storeVars, sessionVars, progressVars>>

UnitNext ==
    \/ CalculateCodeQualityCall
    \/ DetectNamingStyleCall
    \/ AnalyzeFunctionCall
    \/ DetectLanguageFromContentCall
    \/ DetectDocstringStyleCall

UnitSpec == UnitInit /\ [][UnitNext]_vars

(***************************************************************************)
(* models.py, sessions.  sessions_db maps a token to its session dict;     *)
(* tokens are uuid4 strings, modelled as the numbers 1, 2, ... in the      *)
(* order they are handed out, so that no token is handed out twice.  Time  *)
(* is datetime.utcnow() in whole days.                                     *)
(***************************************************************************)
SessionDays == 30

\* None, and a session dict that was found
None == [none |-> TRUE]

Found(session) == [none |-> FALSE, session |-> session]

\* create_session: the store with the new session under token
create_session(db, user_id, expires_in_days, token, t) ==
    Put(db, token, [user_id |-> user_id, created_at |-> t, last_accessed |-> t,
                    expires_at |-> t + expires_in_days])

\* delete_session
delete_session(db, token) ==
    IF token \in DOMAIN db THEN [k \in DOMAIN db \ {token} |-> db[k]] ELSE db

\* get_session that leaves an expired session in the store
get_session_keep_expired(db, token, t) ==
    IF token \notin DOMAIN db THEN [db |-> db, result |-> None]
    ELSE IF t > db[token].expires_at
    THEN [db |-> db, result |-> None]
    ELSE [db |-> [db EXCEPT ![token] = [@ EXCEPT !.last_accessed = t,
                                                 !.expires_at = t + SessionDays]],
          result |-> Found([db[token] EXCEPT !.last_accessed = t,
                                             !.expires_at = t + SessionDays])]

\* get_session at time t: the store as the call leaves it and what it returns
get_session(db, token, t) ==
    IF token \notin DOMAIN db THEN [db |-> db, result |-> None]
    ELSE IF t > db[token].expires_at
    THEN [db |-> delete_session(db, token), result |-> None]
    ELSE [db |-> [db EXCEPT ![token] = [@ EXCEPT !.last_accessed = t,
                                                 !.expires_at = t + SessionDays]],
          result |-> Found([db[token] EXCEPT !.last_accessed = t,
                                             !.expires_at = t + SessionDays])]

\* cleanup_expired_sessions at time t
cleanup_expired_sessions(db, t) ==
    [db    |-> [k \in {x \in DOMAIN db : ~(t > db[x].expires_at)} |-> db[k]],
     count |-> Cardinality({x \in DOMAIN db : t > db[x].expires_at})]

\* the tokens a client may present: the ones handed out, and 0 for a token
\* the server never handed out
PresentedTokens == 0..issued

SessionInit ==
    /\ orig = <<>>
    /\ files = <<>>
    /\ perm = <<>>
    /\ pc = "ready"
    /\ report = NoReport
    /\ first = NoReport
    /\ permReport = NoReport
    /\ codeReport = NoReport
    /\ codeTotals = EmptyPatterns
    /\ dnaReport = NoReport
    /\ objects = <<>>
    /\ profiles_db = <<>>
    /\ response = NoResponse
    /\ call = NoCall
    /\ returned = NotReturned
    /\ NoSessions
    /\ NoRequests

\* create_session(user_id), with the default of 30 days every caller uses
CreateSessionCall ==
    /\ issued < MaxSessions
    /\ issued' = issued + 1
    /\ sessions_db' = create_session(sessions_db, "u1", SessionDays, issued + 1, now)
    /\ call' = [fn |-> "create_session", arg |-> "u1"]
    /\ returned' = [token |-> issued + 1]
    /\ UNCHANGED <<now, analysisVars, storeVars, progressVars>>

\* get_session(token); the call record keeps what the store held for the
\* token when the call was made
GetSessionCall ==
    /\ \E token \in PresentedTokens :
         /\ sessions_db' = get_session(sessions_db, token, now).db
         /\ returned' = get_session(sessions_db, token, now).result
         /\ call' = [fn |-> "get_session", arg |-> token, at |-> now,
                     stored |-> IF token \in DOMAIN sessions_db
                                THEN Found(sessions_db[token]) ELSE None]
    /\ UNCHANGED <<now, issued, analysisVars, storeVars, progressVars>>

\* cleanup_expired_sessions(), called by periodic_cleanup and before_request
CleanupExpiredSessionsCall ==
    /\ sessions_db' = cleanup_expired_sessions(sessions_db, now).db
    /\ returned' = [count |-> cleanup_expired_sessions(sessions_db, now).count]
    /\ call' = [fn |-> "cleanup_expired_sessions"]
    /\ UNCHANGED <<now, issued, analysisVars, storeVars, progressVars>>

\* time passes: half the life of a session, or a day more than that
Tick ==
    /\ \E days \in {SessionDays \div 2, SessionDays \div 2 + 1} :
         /\ now + days <= MaxTime
         /\ now' = now + days
    /\ UNCHANGED <<sessions_db, issued, unitVars, analysisVars, storeVars, progressVars>>

SessionNext ==
    \/ CreateSessionCall
    \/ GetSessionCall
    \/ CleanupExpiredSessionsCall
    \/ Tick

SessionSpec == SessionInit /\ [][SessionNext]_vars

(***************************************************************************)
(* app.py, progress tracking.  github_progress and file_upload_progress    *)
(* map a key to a progress entry; every access is a "with progress_lock"   *)
(* block, which is one step, except the last block of analyze_github,      *)
(* which sleeps while it holds the lock.  An entry carries, besides its    *)
(* percent, the request that wrote it (by), which the code does not store. *)
(* requests[r] is the handler serving client r, its progress key and the   *)
(* place it has reached.                                                   *)
(***************************************************************************)
Usernames == {"octo", "hub"}

\* what a step of the progress tracking leaves alone
restVars == <<analysisVars, storeVars, sessionVars, unitVars>>

Entry(percent, r) == [percent |-> percent, by |-> r]

\* progress.get(key, {'percent': 0, 'status': 'Starting...'})
DefaultEntry == Entry(0, "none")

\* progress.pop(key, None)
Pop(progress, key) == [k \in DOMAIN progress \ {key} |-> progress[k]]

\* str(uuid.uuid4())[:8], one for every request
SessionId(r) == r

\* the cleanup thread of analyze_files never running
cleanup_progress_skipped(progress, session_id) == progress

\* cleanup_progress of analyze_files, after its sleep
cleanup_progress(progress, session_id) == Pop(progress, session_id)

At(r, places) == requests[r].pc \in places

Goto(r, place) == requests' = [requests EXCEPT ![r].pc = place]

\* a step of analyze_files that writes its entry
FileStep(r, from, percent, to) ==
    /\ requests[r].handler = "analyze_files"
    /\ At(r, from)
    /\ progress_lock = "free"
    /\ file_upload_progress' = Put(file_upload_progress, requests[r].key, Entry(percent, r))
    /\ Goto(r, to)
    /\ UNCHANGED <<github_progress, progress_lock, restVars>>

\* a step of analyze_files that removes its entry
FileExit(r, from, to) ==
    /\ requests[r].handler = "analyze_files"
    /\ At(r, from)
    /\ progress_lock = "free"
    /\ file_upload_progress' = Pop(file_upload_progress, requests[r].key)
    /\ Goto(r, to)
    /\ UNCHANGED <<github_progress, progress_lock, restVars>>

\* a step of analyze_github or fetch_all_user_code_files that writes its entry
GithubStep(r, from, percent, to) ==
    /\ requests[r].handler = "analyze_github"
    /\ At(r, from)
    /\ progress_lock = "free"
    /\ github_progress' = Put(github_progress, requests[r].key, Entry(percent, r))
    /\ Goto(r, to)
    /\ UNCHANGED <<file_upload_progress, progress_lock, restVars>>

\* a step of analyze_github or fetch_all_user_code_files that removes its entry
GithubExit(r, from, to) ==
    /\ requests[r].handler = "analyze_github"
    /\ At(r, from)
    /\ progress_lock = "free"
    /\ github_progress' = Pop(github_progress, requests[r].key)
    /\ Goto(r, to)
    /\ UNCHANGED <<file_upload_progress, progress_lock, restVars>>

\* analyze_files: each "with progress_lock" block is a step
analyze_files(r) ==
    \* lines 502-507: the entry is created under a fresh session id
    \/ /\ At(r, {"idle"})
       /\ progress_lock = "free"
       /\ file_upload_progress' = Put(file_upload_progress, SessionId(r), Entry(5, r))
       /\ requests' = [requests EXCEPT ![r] = [handler |-> "analyze_files",
                                               key |-> SessionId(r), pc |-> "reading"]]
       /\ UNCHANGED <<github_progress, progress_lock, restVars>>
    \* lines 514-517: no file in the request
    \/ FileExit(r, {"reading"}, "done")
    \* lines 519-520
    \/ FileStep(r, {"reading"}, 10, "processing")
    \* lines 548-554: a code file was read (the last one: 40)
    \/ FileStep(r, {"processing"}, 40, "read")
    \* lines 559-562: no code file among the files
    \/ FileExit(r, {"processing"}, "done")
    \* lines 564-565
    \/ FileStep(r, {"read"}, 45, "analyzing")
    \* lines 575-576
    \/ FileStep(r, {"analyzing"}, 90, "finalizing")
    \* lines 583-593: 100 percent, and the cleanup thread is started
    \/ FileStep(r, {"finalizing"}, 100, "complete")
    \* lines 601-608: an exception before the cleanup thread is started
    \/ FileExit(r, {"reading", "processing", "read", "analyzing", "finalizing"}, "done")
    \* lines 601-608: an exception after the cleanup thread is started
    \/ FileExit(r, {"complete"}, "failed")

\* analyze_files, lines 587-593: the cleanup thread
CleanupThread(r) ==
    /\ requests[r].handler = "analyze_files"
    /\ At(r, {"complete", "failed"})
    /\ progress_lock = "free"
    /\ file_upload_progress' = cleanup_progress(file_upload_progress, requests[r].key)
    /\ Goto(r, "done")
    /\ UNCHANGED <<github_progress, progress_lock, restVars>>

\* fetch_all_user_code_files(username, progress_key = username), called by
\* analyze_github
fetch_all_user_code_files(r) ==
    \* lines 357-359
    \/ GithubStep(r, {"fetching"}, 20, "fetch_repos")
    \* lines 363-368: no repository, [] is returned
    \/ GithubExit(r, {"fetch_repos"}, "fetched")
    \* lines 371-373
    \/ GithubStep(r, {"fetch_repos"}, 25, "fetch_files")
    \* lines 436-442
    \/ GithubStep(r, {"fetch_files"}, 60, "fetched")
    \* lines 445-449: an exception, [] is returned and the entry is left
    \/ /\ requests[r].handler = "analyze_github"
       /\ At(r, {"fetch_repos", "fetch_files"})
       /\ Goto(r, "fetched")
       /\ UNCHANGED <<github_progress, file_upload_progress, progress_lock, restVars>>

\* analyze_github: each "with progress_lock" block is a step, but the last
\* block is two, since it sleeps with the lock held
analyze_github(r) ==
    \* lines 628-636: the entry is created under the username
    \/ /\ At(r, {"idle"})
       /\ progress_lock = "free"
       /\ \E username \in Usernames :
            /\ github_progress' = Put(github_progress, username, Entry(0, r))
            /\ requests' = [requests EXCEPT ![r] = [handler |-> "analyze_github",
                                                    key |-> username, pc |-> "starting"]]
       /\ UNCHANGED <<file_upload_progress, progress_lock, restVars>>
    \* lines 630-631: no username in the request
    \/ /\ At(r, {"idle"})
       /\ requests' = [requests EXCEPT ![r] = [handler |-> "analyze_github",
                                               key |-> "", pc |-> "done"]]
       /\ UNCHANGED <<github_progress, file_upload_progress, progress_lock, restVars>>
    \* lines 642-643
    \/ GithubStep(r, {"starting"}, 2, "connecting")
    \* lines 648-650: no repository
    \/ GithubExit(r, {"connecting"}, "done")
    \* lines 838-839
    \/ GithubStep(r, {"connecting"}, 5, "health")
    \* lines 844-850: a repository of the health analysis (the second of two: 12)
    \/ GithubStep(r, {"health"}, 12, "health_repo")
    \* lines 855-856
    \/ GithubStep(r, {"health_repo"}, 20, "fetching")
    \* line 859
    \/ fetch_all_user_code_files(r)
    \* lines 915-916: there are code files
    \/ GithubStep(r, {"fetched"}, 60, "analyzing")
    \* lines 929-930
    \/ GithubStep(r, {"analyzing"}, 75, "analyzed")
    \* lines 932-933 (the health report is never empty: line 869 is not taken)
    \/ GithubStep(r, {"fetched", "analyzed"}, 80, "suggesting")
    \* lines 1000-1001
    \/ GithubStep(r, {"suggesting"}, 90, "finalizing")
    \* lines 1025-1029: 100 percent, then the sleep with the lock held
    \/ /\ requests[r].handler = "analyze_github"
       /\ At(r, {"finalizing"})
       /\ progress_lock = "free"
       /\ progress_lock' = r
       /\ github_progress' = Put(github_progress, requests[r].key, Entry(100, r))
       /\ Goto(r, "sleeping")
       /\ UNCHANGED <<file_upload_progress, restVars>>
    \* line 1030: the entry is removed and the lock released
    \/ /\ requests[r].handler = "analyze_github"
       /\ At(r, {"sleeping"})
       /\ progress_lock = r
       /\ progress_lock' = "free"
       /\ github_progress' = Pop(github_progress, requests[r].key)
       /\ Goto(r, "done")
       /\ UNCHANGED <<file_upload_progress, restVars>>
    \* lines 1039-1055: an exception
    \/ GithubExit(r, {"starting", "connecting", "health", "health_repo", "fetching",
                      "fetch_repos", "fetch_files", "fetched", "analyzing", "analyzed",
                      "suggesting", "finalizing"}, "done")

\* get_github_progress(username)
get_github_progress ==
    /\ progress_lock = "free"
    /\ \E username \in Usernames :
         /\ call' = [fn |-> "get_github_progress", arg |-> username]
         /\ returned' = Get(github_progress, username, DefaultEntry)
    /\ UNCHANGED <<analysisVars, storeVars, sessionVars, progressVars>>

\* get_file_upload_progress(), with the session_id of the query
get_file_upload_progress ==
    /\ progress_lock = "free"
    /\ \E r \in Requests :
         /\ call' = [fn |-> "get_file_upload_progress", arg |-> SessionId(r)]
         /\ returned' = Get(file_upload_progress, SessionId(r), DefaultEntry)
    /\ UNCHANGED <<analysisVars, storeVars, sessionVars, progressVars>>

\* the steps of the request of client r
RequestStep(r) ==
    \/ analyze_files(r)
    \/ CleanupThread(r)
    \/ analyze_github(r)

ProgressInit == SessionInit

ProgressNext ==
    \/ \E r \in Requests : RequestStep(r)
    \/ get_github_progress
    \/ get_file_upload_progress

ProgressSpec == ProgressInit /\ [][ProgressNext]_vars

\* a step of a request that has started
RunningStep(r) == requests[r].pc # "idle" /\ RequestStep(r)

\* every request thread and cleanup thread that has started keeps running
FairProgressSpec == ProgressSpec /\ \A r \in Requests : WF_vars(RunningStep(r))

(***************************************************************************)
(* Properties                                                              *)
(***************************************************************************)
Called == pc # "ready"

Coded == pc \in {"coded", "profiled", "done"}

Has(r, k) == k \in DOMAIN r

\* the languages of the supplied files and the number of files of each
InputLanguages == {GroupLanguage(orig[i]) : i \in 1..Len(orig)}

InputCount(l) == Cardinality({i \in 1..Len(orig) : GroupLanguage(orig[i]) = l})

\* the call takes the all-Python path
AllPythonInput == orig # <<>> /\ InputLanguages = {"Python"}

\* C1: permuting the file list does not change the profile that
\* analyze_all_languages returns (naming_style, naming_confidence,
\* documentation_percentage, type_hints_percentage, error_handling_style,
\* code_quality_score, languages_detected, primary_language and the
\* per-language patterns).
C1_OrderIndependent ==
    pc = "done" =>
        /\ permReport.naming_style = first.naming_style
        /\ permReport.naming_confidence = first.naming_confidence
        /\ permReport.documentation_percentage = first.documentation_percentage
        /\ permReport.type_hints_percentage = first.type_hints_percentage
        /\ permReport.error_handling_style = first.error_handling_style
        /\ permReport.code_quality_score = first.code_quality_score
        /\ permReport.languages_detected = first.languages_detected
        /\ permReport.primary_language = first.primary_language
        /\ permReport.all_patterns = first.all_patterns

\* C2: a second call of analyze_all_languages on the same list object, whose
\* records now carry the language tags of the first call, returns the report
\* of the first call; analyze_code_files on the tagged records returns what
\* it returns on the records as supplied.
C2_RerunIdentical ==
    /\ pc \notin {"ready", "analyzed"} => report = first
    /\ Coded => codeReport = analyze_code_files(orig).report

C2_Witness ==
    /\ pc = "done"
    /\ \E i \in 1..Len(orig) : orig[i].language = NoTag /\ files[i].language = "Python"
    /\ \E i \in 1..Len(orig) : orig[i].language = "Unknown" /\ files[i].language # "Unknown"
    /\ report = first

QualityFloor == 30

\* C3: on an empty file list every entry point (analyze_all_languages,
\* analyze_code_files, extract_style_dna) returns a profile with
\* files_analyzed = 0, total_functions = 0 and code_quality_score at the
\* floor (scores of extract_style_dna are in tenths).
C3_EmptyInput ==
    (pc = "done" /\ orig = <<>>) =>
        /\ Has(first, "files_analyzed") /\ first.files_analyzed = 0
        /\ Has(first, "total_functions") /\ first.total_functions = 0
        /\ first.code_quality_score = QualityFloor
        /\ Has(codeReport, "files_analyzed") /\ codeReport.files_analyzed = 0
        /\ codeReport.total_functions = 0
        /\ codeReport.code_quality_score = QualityFloor
        /\ Has(dnaReport, "files_analyzed") /\ dnaReport.files_analyzed = 0
        /\ Has(dnaReport, "total_functions") /\ dnaReport.total_functions = 0
        /\ dnaReport.code_quality_score = 10 * QualityFloor

\* the identifiers analyze_code_files collects from the supplied files
ObservedNames ==
    codeTotals.function_names \o codeTotals.variable_names \o codeTotals.class_names

NamingBuckets == {"snake_case", "camelCase", "PascalCase"}

\* there is an identifier, and all identifiers are in one and the same bucket
OneBucket(names) ==
    /\ names # <<>>
    /\ \E b \in NamingBuckets : \A i \in 1..Len(names) : NameBucket(names[i]) = b

\* the identifiers left after the names of length <= 1 and i, j, k, x, y, z,
\* id, ok are set aside (all of them when nothing is left)
TalliedNames(names) ==
    LET kept == SelectSeq(names, LAMBDA n : Len(n) > 1 /\ n \notin TrivialNames)
    IN IF kept = <<>> THEN names ELSE kept

ParsesOk(file_data) == file_data.content.parse = "ok"

IsSyntaxError(file_data) ==
    file_data.content.text = "code" /\ file_data.content.parse = "SyntaxError"

Occurrences(names, n) == Cardinality({i \in 1..Len(names) : names[i] = n})

FileRegexVars(file_data) == file_data.content.regex_vars

\* C6: a file with a syntax error is counted in files_analyzed and adds its
\* lines and its assignment-like identifiers; everything else in the totals
\* of analyze_code_files is what the batch without the malformed files
\* gives.  extract_style_dna counts the file and folds the other files as if
\* it were absent.
C6_SyntaxErrorDegrades ==
    LET bad      == SelectSeq(orig, IsSyntaxError)
        good     == SelectSeq(orig, LAMBDA f : ~IsSyntaxError(f))
        without  == FoldFiles(EmptyPatterns, good)
        bad_vars == Flatten(Map(bad, FileRegexVars))
        Rest(p)  == [p EXCEPT !.files_analyzed = 0, !.total_lines = 0, !.variable_names = <<>>]
    IN /\ Coded =>
            /\ codeTotals.files_analyzed = without.files_analyzed + Len(bad)
            /\ codeTotals.total_lines = without.total_lines + SumSeq(Map(bad, FileLines))
            /\ Len(codeTotals.variable_names) = Len(without.variable_names) + Len(bad_vars)
            /\ \A i \in 1..Len(codeTotals.variable_names) :
                 LET n == codeTotals.variable_names[i]
                 IN Occurrences(codeTotals.variable_names, n)
                      = Occurrences(without.variable_names, n) + Occurrences(bad_vars, n)
            /\ Rest(codeTotals) = Rest(without)
            /\ codeReport.files_analyzed = codeTotals.files_analyzed
       /\ (pc \in {"profiled", "done"} /\ good # <<>>) =>
            /\ dnaReport.total_files_analyzed = Len(orig)
            /\ dnaReport.total_functions = extract_style_dna(good).total_functions
            /\ dnaReport.naming_style = extract_style_dna(good).naming_style

C6_Witness ==
    /\ pc = "done"
    /\ \E i, j \in 1..Len(orig) :
         /\ i < j
         /\ IsSyntaxError(orig[i]) /\ orig[i].content.regex_vars # <<>>
         /\ ParsesOk(orig[j]) /\ orig[j].content.functions # <<>>
    /\ codeReport.files_analyzed = Len(orig)
    /\ codeReport.total_functions > 0

ProfileNamingStyles == {"snake_case", "camelCase", "PascalCase", "UPPER_CASE"}

ProfileErrorStyles == {"try_except", "if_else", "mixed", "basic", "logging"}

\* every StyleProfile field is there, with a value of its declared domain
WellFormedProfile(r) ==
    /\ Has(r, "naming_style") /\ r.naming_style \in ProfileNamingStyles
    /\ Has(r, "naming_confidence") /\ r.naming_confidence \in 0..1000
    /\ Has(r, "documentation_percentage") /\ r.documentation_percentage \in 0..1000
    /\ Has(r, "type_hints_percentage") /\ r.type_hints_percentage \in 0..1000
    /\ Has(r, "error_handling_style") /\ r.error_handling_style \in ProfileErrorStyles
    /\ Has(r, "code_quality_score") /\ r.code_quality_score \in 0..100
    /\ Has(r, "total_functions") /\ r.total_functions \in Nat
    /\ Has(r, "files_analyzed") /\ r.files_analyzed \in Nat
    /\ Has(r, "languages_detected") /\ Has(r, "primary_language")

\* C7: whatever the batch, the profile analyze_all_languages returns carries
\* every StyleProfile field with a value of its declared domain.
C7_WellFormedProfile == Called => WellFormedProfile(first)

\* the files analyze_code_files parses or hands to a degraded fallback
IsHandled(file_data) == file_data.content.text = "code"

\* C8: files_analyzed of the profile of analyze_all_languages is the number
\* of input files parsed or handled by the degraded fallback, on the
\* all-Python path and on the mixed-language path.
C8_FilesAnalyzed ==
    Called =>
        /\ Has(first, "files_analyzed")
        /\ first.files_analyzed = Count(orig, IsHandled)

\* C9: for a non-empty batch primary_language is one of languages_detected
\* and no detected language has more files; languages_detected lists the
\* languages of the batch, each once.
C9_PrimaryLanguage ==
    (Called /\ orig # <<>>) =>
        LET detected == first.languages_detected
        IN /\ \E i \in 1..Len(detected) : detected[i] = first.primary_language
           /\ \A l \in InputLanguages : InputCount(l) <= InputCount(first.primary_language)
           /\ {detected[i] : i \in 1..Len(detected)} = InputLanguages
           /\ \A i, j \in 1..Len(detected) : detected[i] = detected[j] => i = j

C9_Witness ==
    /\ pc = "done"
    /\ Len(orig) = 3
    /\ first.languages_detected = <<"Python", "JavaScript">>
    /\ InputCount("Python") = 2 /\ InputCount("JavaScript") = 1
    /\ first.primary_language = "Python"

\* the languages with the greatest file count in the batch
TopLanguages == {l \in InputLanguages : \A m \in InputLanguages : InputCount(m) <= InputCount(l)}

\* C10: when several languages of the extension table tie for the greatest
\* file count, primary_language is the tied language that comes first in
\* the table, whatever the order of the files.
C10_TieBreakByTable ==
    (Called /\ Cardinality(TopLanguages) >= 2 /\ \A l \in TopLanguages : TableIndex(l) > 0) =>
        /\ first.primary_language \in TopLanguages
        /\ \A l \in TopLanguages : TableIndex(first.primary_language) <= TableIndex(l)

\* C11: when the batch holds a file of a recognized language, the Unknown
\* bucket is not the primary_language of the profile, however many Unknown
\* files there are.
C11_UnknownNeverPrimary ==
    (Called /\ \E l \in InputLanguages : l # "Unknown") =>
        first.primary_language # "Unknown"

\* the Python files of the batch and the identifiers collected from them
PythonGroup == SelectSeq(orig, LAMBDA f : GroupLanguage(f) = "Python")

PythonNames ==
    LET all == FoldFiles(EmptyPatterns, PythonGroup)
    IN all.function_names \o all.variable_names \o all.class_names

\* the report r names a bucket with the highest count among names and gives
\* that bucket's share of names as its confidence; snake_case with
\* confidence 0 when there are no names
NamingAsTallied(r, names) ==
    IF names = <<>>
    THEN r.naming_style = "snake_case" /\ r.naming_confidence = 0
    ELSE /\ r.naming_style \in NamingBuckets
         /\ \A b \in NamingBuckets : InBucket(names, b) <= InBucket(names, r.naming_style)
         /\ r.naming_confidence = Round1(InBucket(names, r.naming_style), Len(names))

\* C12: naming_style is the bucket with the highest count over the tallied
\* identifiers and naming_confidence that bucket's count / the number of
\* tallied identifiers * 100, rounded to one decimal (snake_case and 0
\* without identifiers): in the report of analyze_code_files, and in the
\* profile of analyze_all_languages whose primary language is Python, over
\* the identifiers of the Python files.
C12_NamingStyleConfidence ==
    /\ Coded => NamingAsTallied(codeReport, TalliedNames(ObservedNames))
    /\ (Called /\ first.primary_language = "Python") =>
           NamingAsTallied(first, TalliedNames(PythonNames))

\* the files analyze_code_files parses
IsParsed(file_data) == file_data.content.text = "code" /\ file_data.content.parse = "ok"

DocumentedCount(file_data) == Count(file_data.content.functions, HasDoc)

\* the documented functions of the parsed files, and whether one of the
\* parsed files has a module docstring
DocumentedFunctions == SumSeq(Map(SelectSeq(orig, IsParsed), DocumentedCount))

SomeModuleDoc == \E i \in 1..Len(orig) : IsParsed(orig[i]) /\ orig[i].content.module_doc

\* C13: documentation_percentage is within [0, 100]; in the report of
\* analyze_code_files it is documented functions / total_functions * 100
\* when there are functions, 20.0 when there are none but a file has a
\* module docstring, and 0 otherwise.
C13_DocumentationPercentage ==
    /\ Called => first.documentation_percentage \in 0..1000
    /\ Coded =>
         /\ codeReport.documentation_percentage \in 0..1000
         /\ codeReport.documentation_percentage =
              IF codeReport.total_functions > 0
              THEN Round1(DocumentedFunctions, codeReport.total_functions)
              ELSE IF SomeModuleDoc THEN 200 ELSE 0

TryNodes(file_data) == file_data.content.try_nodes

IfNodes(file_data) == file_data.content.if_nodes

\* the style the claim gives for t try statements and c if statements
StyleByCounts(t, c) ==
    IF t > 2 * c THEN "try_except"
    ELSE IF c > 2 * t THEN "if_else"
    ELSE IF t + c > 0 THEN "mixed"
    ELSE "basic"

ErrorStyleOf(fs) ==
    StyleByCounts(SumSeq(Map(SelectSeq(fs, IsParsed), TryNodes)),
                  SumSeq(Map(SelectSeq(fs, IsParsed), IfNodes)))

\* the Python files analyze_all_languages hands to analyze_code_files: all
\* of them when the batch is all Python, the first SampleCap otherwise
AnalyzedPython ==
    IF Has(first, "files_analyzed") THEN PythonGroup ELSE Take(PythonGroup, SampleCap)

SkillRule(quality, type_hints, documentation) ==
    IF quality >= 80 /\ type_hints >= 500 THEN "advanced"
    ELSE IF quality >= 60 \/ documentation >= 500 THEN "intermediate"
    ELSE "beginner"

\* the style profile dict a UserProfile refers to
StoredDict(user_id) == objects[profiles_db[user_id].style_dna]

\* C15: a skill level derived from a profile's scores is advanced iff the
\* quality score is >= 80 and the type-hint percentage >= 50, otherwise
\* intermediate iff the quality score is >= 60 or the documentation
\* percentage >= 50, otherwise beginner: the skill_level save_style_profile
\* gives a UserProfile for the dict it stores, and the skill_level of the
\* profile of extract_style_dna (whose score is in tenths).
C15_SkillLevel ==
    /\ \A user_id \in DOMAIN profiles_db :
         profiles_db[user_id].style_dna # 0 =>
            profiles_db[user_id].skill_level =
               SkillRule(Get(StoredDict(user_id), "code_quality_score", 50),
                         Get(StoredDict(user_id), "type_hints_percentage", 0),
                         Get(StoredDict(user_id), "documentation_percentage", 0))
    /\ Has(dnaReport, "skill_level") =>
         dnaReport.skill_level =
            SkillRule(dnaReport.code_quality_score \div 10, dnaReport.type_hints_usage,
                      dnaReport.documentation_score)

\* C20: no feedback or learning operation changes a style profile dict that
\* was stored earlier: every stored dict keeps its field values, and a
\* changed profile is a new dict.
C20_StoredProfilesImmutable ==
    [][\A ref \in 1..Len(objects) :
          /\ ref <= Len(objects')
          /\ objects'[ref] = objects[ref]]_vars

C20_Witness ==
    /\ Len(objects) = 2
    /\ "interactions" \in DOMAIN objects[2] /\ "interactions" \notin DOMAIN objects[1]
    /\ profiles_db["u1"].style_dna = 2
    /\ response.handler = "handle_feedback"
    /\ response.status = 200
    /\ response.current = 2
    /\ response.profile.code_quality_score = objects[2].code_quality_score + 1
    /\ response.profile.documentation_percentage # objects[2].documentation_percentage

\* the languages whose table entry holds the final extension of filename,
\* letter case set aside (none without a dot in the name)
TableLanguages(filename) ==
    IF ~Contains(filename, ".") THEN {}
    ELSE LET ext == Join(<<".">> \o Lower(LastSegment(filename)))
         IN {LANGUAGE_EXTENSIONS[i].language : i \in
               {j \in 1..Len(LANGUAGE_EXTENSIONS) : ext \in LANGUAGE_EXTENSIONS[j].extensions}}

\* what the content heuristics alone make of a content
ContentLanguage(content) == detect_language_from_content(<<"x">>, content)

\* C16: for a filename whose final extension is in the extension table, in
\* any letter case, the classifier returns the table's language of that
\* extension whatever the content is, and analyze_all_languages tags an
\* untagged file with it.
C16_ExtensionFirst ==
    \A i \in 1..Len(orig) :
        LET table == TableLanguages(orig[i].filename)
        IN table # {} =>
            /\ \A f \in FilePool :
                 table = {detect_language_from_content(orig[i].filename, f.content)}
            /\ (Called /\ orig[i].language \in {NoTag, "Unknown"}) =>
                 table = {files[i].language}

C16_Witness ==
    /\ pc = "done"
    /\ \E i \in 1..Len(orig) :
         /\ orig[i].language = NoTag
         /\ TableLanguages(orig[i].filename) = {"Python"}
         /\ ContentLanguage(orig[i].content) = "JavaScript"
         /\ files[i].language = "Python"
    /\ \E j \in 1..Len(orig) :
         /\ LastSegment(orig[j].filename) # Lower(LastSegment(orig[j].filename))
         /\ ContentLanguage(orig[j].content) = "JavaScript"
         /\ files[j].language = "JavaScript"

\* a file without a tag, table extension or content signature
IsUnknownFile(file_data) ==
    /\ file_data.language \in {NoTag, "Unknown"}
    /\ TableLanguages(file_data.filename) = {}
    /\ ContentLanguage(file_data.content) = "Unknown"

IsKnownFile(file_data) == ~IsUnknownFile(file_data)

\* C17: a file whose extension is not in the table and whose content
\* matches no signature is classified Unknown; the naming and documentation
\* signals of the profile are those of the batch without such files, and
\* the profile counts the file in files_analyzed and its lines in
\* total_lines.
C17_UnknownFile ==
    (Called /\ \E i \in 1..Len(orig) : IsUnknownFile(orig[i])) =>
        /\ \A i \in 1..Len(orig) : IsUnknownFile(orig[i]) => files[i].language = "Unknown"
        /\ SelectSeq(orig, IsKnownFile) # <<>> =>
             LET without == analyze_all_languages(SelectSeq(orig, IsKnownFile)).report
             IN /\ first.naming_style = without.naming_style
                /\ first.naming_confidence = without.naming_confidence
                /\ first.documentation_percentage = without.documentation_percentage
        /\ Has(first, "files_analyzed")
        /\ first.files_analyzed = Count(orig, IsHandled)
        /\ Has(first, "total_lines")
        /\ first.total_lines = SumSeq(Map(SelectSeq(orig, IsHandled), FileLines))

\* C18: the Python aggregation does not depend on the order of the files:
\* analyze_code_files and extract_style_dna give, for a reordering of the
\* files, the report and the profile they give for the files as supplied;
\* and for no files the totals are the zero-valued ones.
C18_OrderIndependentFold ==
    pc = "done" =>
        /\ analyze_code_files(perm).report = codeReport
        /\ extract_style_dna(perm) = dnaReport
        /\ orig = <<>> => codeTotals = EmptyPatterns

\* the files of language l in the batch, in the order supplied
LanguageGroup(l) == SelectSeq(orig, LAMBDA f : GroupLanguage(f) = l)

\* C19: in analyze_all_languages at most SampleCap files of a language reach
\* the extractor of that language, on either path: the Python analyzer
\* counts at most SampleCap files, and the patterns of Python, JavaScript,
\* TypeScript and Java in a mixed batch are those of the first SampleCap
\* files of the language.
C19_SampleCap ==
    Called =>
        /\ Has(first, "files_analyzed") => first.files_analyzed <= SampleCap
        /\ ~Has(first, "files_analyzed") =>
             \A l \in DOMAIN first.all_patterns \cap {"Python", "JavaScript", "TypeScript", "Java"} :
                first.all_patterns[l] = LanguagePatterns(l, Take(LanguageGroup(l), SampleCap))

\* a call of fn has returned
Returned(fn) == call.fn = fn /\ returned # NotReturned

\* the average of function_lengths, compared with a number of lines
AverageExceeds(patterns, lines) ==
    /\ patterns.function_lengths # <<>>
    /\ SumSeq(patterns.function_lengths) > lines * Len(patterns.function_lengths)

\* the score of the same totals with no function length recorded, hence with
\* no length penalty
ScoreWithoutLengths(patterns) ==
    calculate_code_quality([patterns EXCEPT !.function_lengths = <<>>])

\* C21: the length penalty is tiered: the score is 20 lower than the score
\* without penalty when the average function length exceeds 100 lines, 10
\* lower when it exceeds 50 but not 100, and equal to it otherwise (for
\* scores that neither the floor of 30 nor the cap of 100 changes).
C21_TieredLengthPenalty ==
    (Returned("calculate_code_quality") /\ ScoreWithoutLengths(call.arg) \in 50..99) =>
        returned.value = ScoreWithoutLengths(call.arg)
                         - (IF AverageExceeds(call.arg, 100) THEN 20
                            ELSE IF AverageExceeds(call.arg, 50) THEN 10 ELSE 0)

\* the buckets analyze_function counted the function of that name in
DnaBucketsOf(name) ==
    {b \in DOMAIN analyze_file_patterns(FunctionNamed(name)).naming :
        analyze_file_patterns(FunctionNamed(name)).naming[b] > 0}

\* C22: every identifier is put in exactly one bucket, the same one by
\* detect_naming_style of code_analyzer and by analyze_function of style_dna:
\* detect_naming_style tallies the identifier under the style it returns,
\* analyze_function counts it once, and the two buckets are equal.
C22_SameBucket ==
    /\ Returned("analyze_function") =>
         /\ Cardinality({b \in DOMAIN returned.naming : returned.naming[b] > 0}) = 1
         /\ NamingTotal(returned.naming) = 1
    /\ Returned("detect_naming_style") =>
         /\ returned.count = 1
         /\ DnaBucketsOf(call.arg[1]) = {returned.style}

\* the signatures in the first 500 characters of the content of the call
CallHead == call.arg.content.head

\* C23: a file with no recognized extension is classified from the first 500
\* characters of its content: with #include (and no other language's
\* signature) C, or C++ when namespace or std:: is there as well; with
\* "public class" and "import java." Java; with "<!DOCTYPE html>" HTML; with
\* no signature Unknown.
C23_ContentSignatures ==
    Returned("detect_language_from_content") =>
        /\ ("#include <" \in CallHead /\ CallHead \subseteq {"#include <", "namespace", "std::"}) =>
             returned.language = (IF CallHead \cap {"namespace", "std::"} # {} THEN "C++" ELSE "C")
        /\ CallHead = {"public class", "import java."} => returned.language = "Java"
        /\ CallHead = {"<!doctype html>"} => returned.language = "HTML"
        /\ CallHead = {} => returned.language = "Unknown"

\* the docstring of the call names a Google section
NamesSection == call.arg.marks \cap {"args:", "returns:", "raises:"} # {}

\* the style the precedence numpy, sphinx, simple gives the docstring of the call
AfterGoogle ==
    IF {"parameters", "----------"} \subseteq call.arg.marks THEN "numpy"
    ELSE IF call.arg.marks \cap {":param", ":return:"} # {} THEN "sphinx"
    ELSE "simple"

\* C24 as stated: a non-empty docstring with Args:, Returns: or Raises: is
\* google, whatever else it holds; otherwise numpy, sphinx, simple in turn.
C24_Original ==
    Returned("detect_docstring_style") =>
        returned.style = (IF NamesSection THEN "google" ELSE AfterGoogle)

\* C24: the classification of a non-empty docstring is total with a fixed
\* precedence: google when it names Args:, Returns: or Raises: and has more
\* than one line; otherwise numpy with a Parameters header and a dashed
\* underline; otherwise sphinx with :param or :return:; otherwise simple.
C24_DocstringStyle ==
    Returned("detect_docstring_style") =>
        /\ returned.style \in {"google", "numpy", "sphinx", "simple"}
        /\ returned.style = (IF NamesSection /\ "\n" \in call.arg.marks THEN "google"
                             ELSE AfterGoogle)

\* a one-line docstring that names a section was classified simple
C24_Witness ==
    /\ Returned("detect_docstring_style")
    /\ call.arg.marks = {"returns:"}
    /\ returned.style = "simple"

Profiled == pc \in {"profiled", "done"}

\* the files extract_style_dna takes patterns from
IsFolded(file_data) == file_data.content.text # "empty" /\ file_data.content.parse = "ok"

FunctionNamesOf(file_data) == Map(file_data.content.functions, NodeName)

\* the naming observations of extract_style_dna: the names of the functions
\* of those files
NamingObservations == Flatten(Map(SelectSeq(orig, IsFolded), FunctionNamesOf))

ObservedIn(b) ==
    Cardinality({i \in 1..Len(NamingObservations) : DnaBucket(NamingObservations[i]) = b})

\* the count of the dominant naming bucket
DominantCount ==
    CHOOSE n \in 0..Len(NamingObservations) :
        /\ \E i \in 1..4 : ObservedIn(DnaBuckets[i]) = n
        /\ \A i \in 1..4 : ObservedIn(DnaBuckets[i]) <= n

\* C25: in every profile of extract_style_dna consistency_score equals
\* naming_confidence; both are the count of the dominant naming bucket
\* divided by the number of naming observations, times 100, and both are 0
\* when there is no naming observation or no file.
C25_ConsistencyIsConfidence ==
    Profiled =>
        /\ dnaReport.consistency_score = dnaReport.naming_confidence
        /\ dnaReport.naming_confidence =
              IF NamingObservations = <<>> THEN 0
              ELSE Round1(DominantCount, Len(NamingObservations))

\* three functions were observed, two of them in the dominant bucket, which
\* is not the snake_case one
C25_Witness ==
    /\ pc = "done"
    /\ Len(NamingObservations) = 3
    /\ DominantCount = 2
    /\ dnaReport.naming_style # "snake_case"
    /\ dnaReport.consistency_score = 667

InsightSignals == {"naming", "documentation", "type_hints", "logging", "quality"}

\* C26: generate_insights returns between 0 and 5 insights, each about one
\* of the five signals and no two about the same signal, and the list
\* depends on the totals only: the files in another order, which have the
\* same totals, get the same list.
C26_Insights ==
    Profiled =>
        LET ins == dnaReport.insights
        IN /\ Len(ins) \in 0..5
           /\ \A i \in 1..Len(ins) : ins[i][1] \in InsightSignals
           /\ \A i, j \in 1..Len(ins) : i # j => ins[i][1] # ins[j][1]
           /\ pc = "done" => extract_style_dna(perm).insights = ins

\* functions in two naming buckets were observed and four signals gave an
\* insight
C26_Witness ==
    /\ pc = "done"
    /\ Cardinality({i \in 1..4 : ObservedIn(DnaBuckets[i]) > 0}) = 2
    /\ Len(dnaReport.insights) = 4
    /\ dnaReport.insights[1][1] = "naming"

\* the session the store held for the token of the get_session call had
\* expired when the call was made
ExpiredAtCall == ~call.stored.none /\ call.at > call.stored.session.expires_at

\* what a get_session call returned, against what the store held
GetSessionAnswer ==
    Returned("get_session") =>
        /\ call.stored.none => returned = None
        /\ ExpiredAtCall => returned = None /\ call.arg \notin DOMAIN sessions_db
        /\ (~call.stored.none /\ ~ExpiredAtCall) =>
              /\ ~returned.none
              /\ returned.session.expires_at = call.at + SessionDays
              /\ returned.session.last_accessed = call.at
              /\ returned.session.user_id = call.stored.session.user_id

\* a token that was handed out and is no longer in the store is not in the
\* store after the step either
RemovedStaysRemoved ==
    \A token \in 1..issued :
        token \notin DOMAIN sessions_db => token \notin DOMAIN sessions_db'

\* C29: get_session never returns an expired session: when the time of the
\* call is past expires_at it returns None and the session is removed from
\* the store, for good, so that every later get_session with the token
\* returns None; a session that is returned has its expiry at 30 days after
\* the call.
C29_ExpiredNeverReturned == [](GetSessionAnswer) /\ [][RemovedStaysRemoved]_vars

\* get_session was called with the token of an expired session
C29_Witness ==
    /\ Returned("get_session")
    /\ ExpiredAtCall
    /\ returned = None
    /\ call.arg \notin DOMAIN sessions_db
    /\ \E token \in DOMAIN sessions_db : sessions_db[token].expires_at > SessionDays

\* the analysis of request r is in flight
InFlight(r) == requests[r].pc \notin {"idle", "done"}

\* the entries of progress written by request r
EntriesBy(progress, r) == {k \in DOMAIN progress : progress[k].by = r}

\* the entry of an analysis in flight is still its own after the step,
\* unless that analysis took the step
Undisturbed(progress, progressAfter) ==
    \A k \in DOMAIN progress :
        LET r == progress[k].by
        IN  (InFlight(r) /\ requests'[r] = requests[r])
                => (k \in DOMAIN progressAfter /\ progressAfter[k].by = r)

\* C27: progress tracking is per analysis: no analysis overwrites or removes
\* the progress entry of another analysis in flight, two GitHub analyses of
\* the same username included, so that a poll reads under the key of an
\* analysis what that analysis wrote.
C27_PerAnalysisProgress ==
    [][/\ Undisturbed(github_progress, github_progress')
       /\ Undisturbed(file_upload_progress, file_upload_progress')]_vars

\* C28: while the entry of a GitHub analysis stands at 100 percent, a poll
\* can read it: get_github_progress can take progress_lock.
C28_CompletionObservable ==
    \A username \in DOMAIN github_progress :
        github_progress[username].percent = 100 => progress_lock = "free"

\* no poll of get_github_progress has answered 100 percent
NoPollSawCompletion ==
    (call.fn = "get_github_progress") => (returned.percent # 100)

\* the file uploads never disturb each other
FileUploadsUndisturbed ==
    [][Undisturbed(file_upload_progress, file_upload_progress')]_vars

\* request r has finished, its cleanup step included
Finished(r) == requests[r].pc = "done"

\* C30: every analysis request that has started finishes, whatever its exit
\* path, and once it has finished, its cleanup step included, no entry it
\* wrote is left; when no request is in flight both dictionaries are empty.
C30_EntriesRemoved ==
    /\ [](\A r \in Requests :
            Finished(r) => /\ EntriesBy(github_progress, r) = {}
                           /\ EntriesBy(file_upload_progress, r) = {})
    /\ []((\A r \in Requests : ~InFlight(r))
            => (github_progress = <<>> /\ file_upload_progress = <<>>))
    /\ \A r \in Requests : InFlight(r) ~> Finished(r)

\* both requests have finished, one after the 100 percent of analyze_files
\* and its cleanup thread, one after an analysis of a GitHub user
C30_Witness ==
    /\ \A r \in Requests : Finished(r)
    /\ \E r \in Requests : requests[r].handler = "analyze_files"
    /\ \E r \in Requests : requests[r].handler = "analyze_github" /\ requests[r].key # ""
    /\ github_progress = <<>>
    /\ file_upload_progress = <<>>

====
